---- MODULE Spec2Model ----
(***************************************************************************)
(* Simple-Tiling: the tiling engine (Tiler), its retile scheduler, the     *)
(* per-workspace window tracker, the timeout registry and the window state *)
(* store, driven by the signals of the host shell.                         *)
(*                                                                         *)
(* The host runs every handler to completion on one event loop.  A handler *)
(* is an operator from the whole state (a record r with one field per      *)
(* variable) to the state it leaves behind, so that a handler that calls   *)
(* another one is the composition of the two.  An action of the module is  *)
(* one host event: the host's own change followed by every handler the     *)
(* host calls for it, in the host's order.                                 *)
(*                                                                         *)
(* A layout pass (_tileWindows) takes two steps, its body and its return,  *)
(* because the host may emit size-changed synchronously from inside        *)
(* move_resize_frame()/unmaximize(), i.e. while the pass is executing.     *)
(***************************************************************************)
EXTENDS Integers, Sequences, FiniteSets, TLC

\* ---------------------------------------------------------------- bounds
NumWindows == 2
NumWorkspaces == 2
\* the registry holds at most this many pending entries at a time
MaxTimers == 3
\* the history counter of coalesced queueTile() calls saturates here
MaxCoalesced == 2

\* layout: sides of the small work areas, inner and outer gaps, windows to tile
MaxSide == 6
MaxGap == 3
MaxOuterGap == 1
MaxTiled == 4

\* target selection: frame origins have coordinates 0..MaxOrigin
MaxOrigin == 2

\* tracker list operations: the windows handed to them are 1..MaxTracked
MaxTracked == 3

\* SimpleTilingExtension.enable() is called at most this many times
MaxEnables == 2

\* workspace objects the host has at a time (dynamic workspaces)
MaxWorkspaceObjects == 4

Windows == 1..NumWindows
WorkspaceObjects == 1..MaxWorkspaceObjects
Workspaces == 0..(NumWorkspaces - 1)

\* ------------------------------------------------------ program constants
\* null window reference (grabbedWindow = null; a timer that is about no window)
NoWin == 0
\* null registry id (_tileTimeoutId = null; readyTimerId undefined)
NoTimer == 0
\* prevWorkspaceIndex undefined
NoIndex == -1
\* maxAttempts of _waitForWindowReady
MaxAttempts == 20
\* the one window class the configured exception lists may hold, and another
ExcClass == "x"
AppClass == "a"

\* a full-size work area with the gap settings of the documented example
ExampleGeometry ==
    [x |-> 0, y |-> 20, width |-> 1920, height |-> 1040,
     innerGap |-> 10, outerGapH |-> 20, outerGapV |-> 20]

VARIABLES
    \* ---- host
    win,                \* per window: st, ws, sticky, cls, minimized, maximized, ready
    activeWs,           \* index of the active workspace
    settings,           \* tilingEnabled, respectMax, exceptions, newWindowBehavior,
                        \* exceptionsAlways (exceptions-always-center or -on-top)
    hostConn,           \* the handlers connected on host objects: <<signal, object>>
    \* ---- Tiler
    workspaceManager,   \* Tiler._workspaceManager is non-null
    signalIds,          \* keys of Tiler._signalIds: <<prefix, object>>
    tileInProgress,
    tileTimeoutId,
    centerTimeoutIds,
    exceptionSet,       \* Tiler._exceptions
    opStamps,           \* keys of Tiler._windowOperationTimestamps
    grabbedWindow,
    \* ---- WorkspaceTracker
    trackerWm,          \* WorkspaceTracker._workspaceManager is non-null
    tiled,              \* per workspace: WorkspaceData.tiled
    exceptions,         \* per workspace: WorkspaceData.exceptions
    workspaceSignals,   \* keys of WorkspaceTracker._workspaceSignals
    \* ---- TimeoutRegistry
    timeouts,           \* pending entries: id, name, what the callback closes over,
                        \* and src, the state of the host source behind sourceId
    nextId,
    removalErrors,      \* removal failures the last remove()/clearAll() logged
    \* ---- WindowState (module-level WeakMap)
    windowStates,       \* per window: entry (the map holds an object for it),
                        \* workspaceSignalId, prevWorkspaceIndex, readyTimerId
    \* ---- control and history
    passCtx,            \* "idle", or who is executing _tileWindows: "timer" | "now"
    placed,             \* windows the executing pass called move_resize_frame on
    passGate,           \* the executing pass began with the maximized gate applying
    coalesced,          \* queueTile() calls dropped since the pending timer was set
    epochPasses,        \* layout passes begun since the last timer was set
    activated,          \* the window the last handler called activate() on, if any
    enables,            \* Tilers constructed so far (SimpleTilingExtension.enable)
    \* ---- workspace objects
    workspaceObjs,      \* the host's workspace objects, by index (from 0)
    wsSubs,             \* per workspace object: the tracker's handlers connected
                        \* to its window-added and window-removed signals
    \* ---- layout
    geometry,           \* the primary monitor's work area (x, y, width, height) and
                        \* _innerGap, _outerGapHorizontal, _outerGapVertical
    frames              \* the rectangles given to move_resize_frame by the last
                        \* layout of windowsToTile, in list order: the frame
                        \* rectangles of the windows of the active tiled list

vars == << win, activeWs, settings, hostConn, workspaceManager, signalIds,
           tileInProgress, tileTimeoutId, centerTimeoutIds, exceptionSet, opStamps,
           grabbedWindow, trackerWm, tiled, exceptions, workspaceSignals, timeouts,
           nextId, removalErrors, windowStates, passCtx, placed, passGate, coalesced,
           epochPasses, activated, enables, workspaceObjs, wsSubs, geometry, frames >>

\* no layout computed yet, for the full-size work area
NoLayout == geometry = ExampleGeometry /\ frames = << >>

\* The whole state as one record, and its write-back.
Cur ==
    [ win |-> win, activeWs |-> activeWs, settings |-> settings, hostConn |-> hostConn,
      workspaceManager |-> workspaceManager, signalIds |-> signalIds,
      tileInProgress |-> tileInProgress, tileTimeoutId |-> tileTimeoutId,
      centerTimeoutIds |-> centerTimeoutIds, exceptionSet |-> exceptionSet,
      opStamps |-> opStamps, grabbedWindow |-> grabbedWindow, trackerWm |-> trackerWm,
      tiled |-> tiled, exceptions |-> exceptions, workspaceSignals |-> workspaceSignals,
      timeouts |-> timeouts, nextId |-> nextId, removalErrors |-> removalErrors,
      windowStates |-> windowStates,
      passCtx |-> passCtx, placed |-> placed, passGate |-> passGate,
      coalesced |-> coalesced, epochPasses |-> epochPasses, enables |-> enables,
      workspaceObjs |-> workspaceObjs, wsSubs |-> wsSubs,
      \* no handler has activated a window yet
      activated |-> NoWin ]

\* ---------------------------------------------------------------- helpers
includes(s, x) == \E i \in 1..Len(s) : s[i] = x
indexOf(s, x) == IF includes(s, x) THEN CHOOSE i \in 1..Len(s) : s[i] = x /\ \A j \in 1..(i - 1) : s[j] # x ELSE 0
\* s.splice(s.indexOf(x), 1) when x is in s
without(s, x) ==
    IF ~includes(s, x) THEN s
    ELSE [i \in 1..(Len(s) - 1) |-> IF i < indexOf(s, x) THEN s[i] ELSE s[i + 1]]
swap(s, i, j) == [s EXCEPT ![i] = s[j], ![j] = s[i]]
Range(s) == { s[i] : i \in 1..Len(s) }
Min2(a, b) == IF a < b THEN a ELSE b

\* Registry ids are opaque: the code only hands them out in increasing order and
\* compares them for equality.  The state is kept up to the order-preserving
\* renaming of the ids it still refers to, so that _nextId stays bounded.
usedIds(r) ==
    ({ t.id : t \in r.timeouts } \cup {r.tileTimeoutId} \cup Range(r.centerTimeoutIds)
       \cup { r.windowStates[w].readyTimerId : w \in Windows }) \ {NoTimer}

rank(r, i) == IF i = NoTimer THEN NoTimer ELSE Cardinality({ j \in usedIds(r) : j <= i })

renamed(r) ==
    [r EXCEPT !.timeouts = { [t EXCEPT !.id = rank(r, t.id)] : t \in r.timeouts },
              !.tileTimeoutId = rank(r, r.tileTimeoutId),
              !.centerTimeoutIds = [i \in 1..Len(r.centerTimeoutIds) |->
                                       rank(r, r.centerTimeoutIds[i])],
              !.windowStates = [w \in Windows |->
                                   [r.windowStates[w] EXCEPT !.readyTimerId = rank(r, @)]],
              !.nextId = Cardinality(usedIds(r)) + 1]

Commit(q) ==
    \E q1 \in {q} :
    /\ Cardinality(q1.timeouts) <= MaxTimers
    /\ \E r \in {renamed(q1)} :
       /\ win' = r.win /\ activeWs' = r.activeWs /\ settings' = r.settings
       /\ hostConn' = r.hostConn /\ workspaceManager' = r.workspaceManager
       /\ signalIds' = r.signalIds /\ tileInProgress' = r.tileInProgress
       /\ tileTimeoutId' = r.tileTimeoutId /\ centerTimeoutIds' = r.centerTimeoutIds
       /\ exceptionSet' = r.exceptionSet /\ opStamps' = r.opStamps
       /\ grabbedWindow' = r.grabbedWindow /\ trackerWm' = r.trackerWm
       /\ tiled' = r.tiled /\ exceptions' = r.exceptions
       /\ workspaceSignals' = r.workspaceSignals /\ timeouts' = r.timeouts
       /\ nextId' = r.nextId /\ removalErrors' = r.removalErrors
       /\ windowStates' = r.windowStates
       /\ passCtx' = r.passCtx /\ placed' = r.placed /\ passGate' = r.passGate
       /\ coalesced' = r.coalesced /\ epochPasses' = r.epochPasses
       /\ activated' = r.activated /\ enables' = r.enables
       /\ workspaceObjs' = r.workspaceObjs /\ wsSubs' = r.wsSubs
       /\ UNCHANGED << geometry, frames >>

\* --------------------------------------------------------- TimeoutRegistry
\* add(): the entry gets id _nextId; the callback's closure is kept in the entry
add(r, name, w, ws, attempts) ==
    [r EXCEPT !.timeouts = @ \cup { [id |-> r.nextId, name |-> name, win |-> w,
                                      ws |-> ws, attempts |-> attempts,
                                      src |-> "live"] },
              !.nextId = @ + 1]

\* the wrapper add() hands to the host, with the entry left in the registry
\* while the callback runs
expireLate(r, t) == r

\* the wrapper add() hands to the host, up to its call of the callback: the
\* entry of the timer that fires is deleted (the host drops the source when the
\* callback returns SOURCE_REMOVE, as every callback here does)
expire(r, t) == [r EXCEPT !.timeouts = @ \ {t}]

\* GLib.source_remove(entry.sourceId) throws
removalFails(t) == t.src = "fails"

\* remove(): the failure is caught and logged, the entry is deleted either way
remove(r, registryId) ==
    LET entry == { t \in r.timeouts : t.id = registryId }
    IN  IF entry = {} THEN r
        ELSE [r EXCEPT !.timeouts = @ \ entry,
                       !.removalErrors = Cardinality({ t \in entry : removalFails(t) })]

\* clearAll() with the try/catch around the whole loop instead of inside it
clearAllUncaught(r) ==
    IF \E t \in r.timeouts : removalFails(t)
    THEN [r EXCEPT !.removalErrors = 1]
    ELSE [r EXCEPT !.timeouts = {}, !.removalErrors = 0]

\* clearAll(): every failure is caught and logged inside the loop, then clear()
clearAll(r) ==
    [r EXCEPT !.timeouts = {},
              !.removalErrors = Cardinality({ t \in r.timeouts : removalFails(t) })]

\* get count()
count(r) == Cardinality(r.timeouts)

\* --------------------------------------------------------- WorkspaceTracker
\* addWindow() with unshift() in place of push() for the tiled list
addWindowFront(r, ws, w, isExc) ==
    IF isExc
    THEN IF includes(r.exceptions[ws], w) THEN r
         ELSE [r EXCEPT !.exceptions[ws] = Append(@, w)]
    ELSE IF includes(r.tiled[ws], w) THEN r
         ELSE [r EXCEPT !.tiled[ws] = <<w>> \o @]

\* addWindow() without its includes() tests
addWindowUnchecked(r, ws, w, isExc) ==
    IF isExc
    THEN [r EXCEPT !.exceptions[ws] = Append(@, w)]
    ELSE [r EXCEPT !.tiled[ws] = Append(@, w)]

addWindow(r, ws, w, isExc) ==
    IF isExc
    THEN IF includes(r.exceptions[ws], w) THEN r
         ELSE [r EXCEPT !.exceptions[ws] = Append(@, w)]
    ELSE IF includes(r.tiled[ws], w) THEN r
         ELSE [r EXCEPT !.tiled[ws] = Append(@, w)]

removeWindow(r, ws, w) ==
    [r EXCEPT !.tiled[ws] = without(@, w), !.exceptions[ws] = without(@, w)]

\* no handler of the tracker connected
NoSubs == [added |-> 0, removed |-> 0]

\* connectToWorkspace(workspace, callbacks) for the workspace object at index:
\* the key is made of workspace.index()
connectToWorkspace(r, index) ==
    LET o == r.workspaceObjs[index + 1]
    IN  IF <<"window-added", index>> \in r.workspaceSignals THEN r
        ELSE [r EXCEPT !.wsSubs[o] = [added |-> @.added + 1, removed |-> @.removed + 1],
                       !.hostConn = @ \cup { <<"window-added", index>>,
                                             <<"window-removed", index>> },
                       !.workspaceSignals = @ \cup { <<"window-added", index>>,
                                                     <<"window-removed", index>> }]

\* connectToAllWorkspaces(callbacks), from index i on
RECURSIVE connectToAllWorkspaces(_, _)
connectToAllWorkspaces(r, i) ==
    IF ~r.trackerWm THEN r
    ELSE IF i >= Len(r.workspaceObjs) THEN r
    ELSE connectToAllWorkspaces(connectToWorkspace(r, i), i + 1)

trackerDisable(r) ==
    [r EXCEPT !.hostConn = @ \ r.workspaceSignals,
              !.wsSubs = [o \in WorkspaceObjects |-> NoSubs],
              !.workspaceSignals = {},
              !.tiled = [ws \in Workspaces |-> << >>],
              !.exceptions = [ws \in Workspaces |-> << >>],
              !.trackerWm = FALSE]

\* Tiler.windows: the active workspace's tiled list, [] without a tracker manager
windows(r) == IF r.trackerWm THEN r.tiled[r.activeWs] ELSE << >>

\* ------------------------------------------------------------ Tiler: tests
isException(r, w) == r.win[w].cls \in r.exceptionSet

hasMaximizedWindows(r) ==
    /\ r.trackerWm
    /\ \E w \in Range(r.tiled[r.activeWs]) : r.win[w].maximized /\ ~r.win[w].minimized

\* window type, attached dialog, transient-for and skip-taskbar are those of a
\* normal application window throughout
isTileable(r, w) ==
    /\ ~r.win[w].minimized
    /\ ~r.win[w].sticky
    /\ ~isException(r, w)

isWindowValid(r, w) == r.win[w].st = "alive"

isWindowReady(r, w) == r.win[w].st = "alive" /\ r.win[w].ready

\* recent: Date.now() - lastTimestamp < cooldownMs, for the clock of the moment
shouldSkipOperation(r, w, recent) == w \in r.opStamps /\ recent

recordOperation(r, w) == [r EXCEPT !.opStamps = @ \cup {w}]

clearOperationTimestamp(r, w) == [r EXCEPT !.opStamps = @ \ {w}]

\* win.get_workspace(): a window on all workspaces reports the active one
getWorkspace(r, w) == IF r.win[w].sticky THEN r.activeWs ELSE r.win[w].ws

\* ------------------------------------------------------- Tiler: scheduler
\* History.  A debounce epoch opens when a tiling-queue timer is set while none
\* is pending and none is running its pass, and closes when no such timer is
\* left and _tileWindows has returned.  coalesced counts the queueTile() calls
\* dropped while a timer of the epoch is pending, epochPasses the layout passes
\* begun in the epoch.
tilingPending(r) == \E t \in r.timeouts : t.name = "tiling-queue"

epochOpen(r) == tilingPending(r) \/ r.passCtx = "timer"

dropped(r) ==
    [r EXCEPT !.coalesced = IF tilingPending(r) THEN Min2(@ + 1, MaxCoalesced) ELSE @]

scheduled(r, r1) ==
    IF epochOpen(r) THEN r1 ELSE [r1 EXCEPT !.coalesced = 0, !.epochPasses = 0]

\* queueTile() without its "already in progress or queued" test
queueTileUnguarded(r) ==
    IF ~r.settings.tilingEnabled THEN r
    ELSE IF r.settings.respectMax /\ hasMaximizedWindows(r) THEN r
    ELSE scheduled(r, [add(r, "tiling-queue", NoWin, NoIndex, 0) EXCEPT
                           !.tileInProgress = TRUE,
                           !.tileTimeoutId = r.nextId])

queueTile(r) ==
    IF r.tileInProgress \/ r.tileTimeoutId # NoTimer THEN dropped(r)
    ELSE IF ~r.settings.tilingEnabled THEN r
    ELSE IF r.settings.respectMax /\ hasMaximizedWindows(r) THEN r
    ELSE scheduled(r, [add(r, "tiling-queue", NoWin, NoIndex, 0) EXCEPT
                           !.tileInProgress = TRUE,
                           !.tileTimeoutId = r.nextId])

centerWindow(r, w) ==
    [add(r, "center-window", w, NoIndex, 0) EXCEPT !.centerTimeoutIds = Append(@, r.nextId)]

\* _tileWindows() without its "recheck for exceptions" loop
recheckSkipped(r, ws, copy) == r

\* the recheck loop adding to exceptions without removing from tiled
RECURSIVE recheckKeepsTiled(_, _, _)
recheckKeepsTiled(r, ws, copy) ==
    IF copy = << >> THEN r
    ELSE LET w == Head(copy)
             moved == addWindow(r, ws, w, TRUE)
             r1 == IF ~isWindowValid(r, w) THEN removeWindow(r, ws, w)
                   ELSE IF isException(r, w)
                        THEN IF r.settings.tilingEnabled /\ r.settings.exceptionsAlways
                             THEN centerWindow(moved, w)
                             ELSE moved
                        ELSE r
         IN  recheckKeepsTiled(r1, ws, Tail(copy))

\* the "recheck for exceptions" loop of _tileWindows over a copy of data.tiled
RECURSIVE recheck(_, _, _)
recheck(r, ws, copy) ==
    IF copy = << >> THEN r
    ELSE LET w == Head(copy)
             moved == addWindow(removeWindow(r, ws, w), ws, w, TRUE)
             r1 == IF ~isWindowValid(r, w) THEN removeWindow(r, ws, w)
                   ELSE IF isException(r, w)
                        THEN IF r.settings.tilingEnabled /\ r.settings.exceptionsAlways
                             THEN centerWindow(moved, w)
                             ELSE moved
                        ELSE r
         IN  recheck(r1, ws, Tail(copy))

\* the filter of _tileWindows without its test of win.minimized
windowsToTileMinimized(r, ws) ==
    SelectSeq(r.tiled[ws], LAMBDA w : r.win[w].st = "alive")

\* data.tiled.filter(...) of _tileWindows: alive, on a monitor, not minimized
windowsToTile(r, ws) ==
    SelectSeq(r.tiled[ws], LAMBDA w : r.win[w].st = "alive" /\ ~r.win[w].minimized)

\* _tileWindows(); monitor: Main.layoutManager.primaryMonitor is non-null.
\* Every window of windowsToTile gets move_resize_frame (directly or through
\* _splitLayout); the rectangles are not part of this state.
tileWindows(r, monitor) ==
    IF ~r.workspaceManager THEN r
    ELSE LET ws == r.activeWs
             r1 == recheck(r, ws, r.tiled[ws])
             toTile == Range(windowsToTile(r1, ws))
         IN  IF toTile = {} THEN r1
             ELSE IF ~monitor THEN r1
             ELSE [r1 EXCEPT
                      !.win = [w \in Windows |->
                                  IF w \in toTile /\ ~r1.settings.respectMax
                                  THEN [r1.win[w] EXCEPT !.maximized = FALSE]
                                  ELSE r1.win[w]],
                      !.placed = toTile]

\* the calls of one window method over a list of windows, in list order
callsOn(op, ws) == [i \in 1..Len(ws) |-> [op |-> op, win |-> ws[i]]]

\* _tileWindows() with the "force unmaximize" loop after the layout
hostCallsUnmaximizeLast(r, monitor) ==
    IF ~r.workspaceManager THEN << >>
    ELSE LET ws == r.activeWs
             r1 == recheck(r, ws, r.tiled[ws])
             toTile == windowsToTile(r1, ws)
         IN  IF toTile = << >> THEN << >>
             ELSE IF ~monitor THEN << >>
             ELSE callsOn("move_resize_frame", toTile)
                      \o (IF ~r1.settings.respectMax
                          THEN callsOn("unmaximize",
                                       SelectSeq(toTile, LAMBDA w : r1.win[w].maximized))
                          ELSE << >>)

\* The calls _tileWindows() makes on the windows it tiles, in the order it makes
\* them: the "force unmaximize" loop over windowsToTile, then move_resize_frame
\* on the only window, or on the primary and, in _splitLayout, on the stack.
hostCalls(r, monitor) ==
    IF ~r.workspaceManager THEN << >>
    ELSE LET ws == r.activeWs
             r1 == recheck(r, ws, r.tiled[ws])
             toTile == windowsToTile(r1, ws)
         IN  IF toTile = << >> THEN << >>
             ELSE IF ~monitor THEN << >>
             ELSE (IF ~r1.settings.respectMax
                   THEN callsOn("unmaximize",
                                SelectSeq(toTile, LAMBDA w : r1.win[w].maximized))
                   ELSE << >>)
                      \o callsOn("move_resize_frame", toTile)

\* One call of _tileWindows by ctx ("timer" | "now"), with the history it leaves.
beginPass(r, ctx, monitor) ==
    LET gate == r.settings.respectMax /\ hasMaximizedWindows(r)
        open == epochOpen(r) \/ ctx = "timer"
        r1 == tileWindows(r, monitor)
    IN  [r1 EXCEPT !.passCtx = ctx,
                   !.passGate = gate,
                   !.epochPasses = IF open THEN Min2(@ + 1, 2) ELSE @]

\* tileNow() without its _tileInProgress test
tileNowUnguarded(r, monitor) ==
    IF ~r.settings.tilingEnabled THEN r ELSE beginPass(r, "now", monitor)

tileNow(r, monitor) ==
    IF ~r.settings.tilingEnabled THEN r
    ELSE IF ~r.tileInProgress THEN beginPass(r, "now", monitor)
    ELSE r

\* ------------------------------------------------- Tiler: window handlers
connectWindowWorkspaceSignal(r, w, ws) ==
    IF r.windowStates[w].workspaceSignalId THEN r
    ELSE [r EXCEPT !.windowStates[w].prevWorkspaceIndex = ws,
                   !.windowStates[w].workspaceSignalId = TRUE,
                   !.windowStates[w].entry = TRUE,
                   !.hostConn = @ \cup { <<"workspace-changed", w>> }]

disconnectWindowWorkspaceSignal(r, w) ==
    LET r1 == IF r.windowStates[w].workspaceSignalId
              THEN [r EXCEPT !.hostConn = IF isWindowValid(r, w)
                                          THEN @ \ { <<"workspace-changed", w>> } ELSE @,
                             !.windowStates[w].workspaceSignalId = FALSE]
              ELSE r
    IN  [r1 EXCEPT !.windowStates[w].prevWorkspaceIndex = NoIndex]

windowSignals(w) == { <<"unmanaged", w>>, <<"size-changed", w>>, <<"notify::minimized", w>> }

processNewWindow(r, ws, w) ==
    IF ~isWindowValid(r, w) THEN r
    ELSE IF includes(r.tiled[ws], w) \/ includes(r.exceptions[ws], w) THEN r
    ELSE IF isException(r, w)
    THEN LET r1 == addWindow(r, ws, w, TRUE)
         IN  IF r.settings.tilingEnabled /\ r.settings.exceptionsAlways
             THEN centerWindow(r1, w) ELSE r1
    ELSE IF isTileable(r, w)
    THEN LET r1 == addWindow(r, ws, w, FALSE)
             r2 == IF r.settings.newWindowBehavior = "primary"
                   THEN [r1 EXCEPT !.tiled[ws] = <<w>> \o without(@, w)]
                   ELSE r1
             r3 == IF <<"unmanaged", w>> \notin r2.signalIds
                   THEN connectWindowWorkspaceSignal(
                            [r2 EXCEPT !.signalIds = @ \cup windowSignals(w),
                                       !.hostConn = @ \cup windowSignals(w)], w, ws)
                   ELSE r2
         IN  IF r.settings.tilingEnabled THEN queueTile(r3) ELSE r3
    ELSE r

\* the connect() calls of _processNewWindow without the "only connect signals
\* if not already connected" tests
connectsOfUnguarded(r, ws, w) ==
    IF ~isWindowValid(r, w) THEN {}
    ELSE IF includes(r.tiled[ws], w) \/ includes(r.exceptions[ws], w) THEN {}
    ELSE IF isException(r, w) THEN {}
    ELSE IF isTileable(r, w)
    THEN windowSignals(w) \cup { <<"workspace-changed", w>> }
    ELSE {}

\* the signals of w on which _processNewWindow(workspace, win) calls connect(),
\* directly and in _connectWindowWorkspaceSignal
connectsOf(r, ws, w) ==
    IF ~isWindowValid(r, w) THEN {}
    ELSE IF includes(r.tiled[ws], w) \/ includes(r.exceptions[ws], w) THEN {}
    ELSE IF isException(r, w) THEN {}
    ELSE IF isTileable(r, w)
    THEN IF <<"unmanaged", w>> \notin r.signalIds
         THEN windowSignals(w) \cup
                  (IF r.windowStates[w].workspaceSignalId THEN {}
                   ELSE { <<"workspace-changed", w>> })
         ELSE {}
    ELSE {}

\* _waitForWindowReady() with the callback of _onWindowAdded
waitForWindowReady(r, ws, w) ==
    LET existing == r.windowStates[w].readyTimerId
        r1 == IF existing # NoTimer
              THEN [remove(r, existing) EXCEPT !.windowStates[w].readyTimerId = NoTimer]
              ELSE r
    IN  IF isWindowReady(r1, w) THEN processNewWindow(r1, ws, w)
        ELSE [add(r1, "window-ready", w, ws, 0) EXCEPT
                  !.windowStates[w].readyTimerId = r1.nextId,
                  !.windowStates[w].entry = TRUE]

\* `check` without its attempts++: the poll never counts its checks
checkUncounted(r, t) ==
    LET w == t.win
        cleared == [r EXCEPT !.windowStates[w].readyTimerId = NoTimer]
    IN  IF ~isWindowValid(r, w) THEN cleared
        ELSE IF isWindowReady(r, w) THEN processNewWindow(cleared, t.ws, w)
        ELSE IF t.attempts >= MaxAttempts THEN cleared
        ELSE [add(r, "window-ready", w, t.ws, t.attempts) EXCEPT
                  !.windowStates[w].readyTimerId = r.nextId,
                  !.windowStates[w].entry = TRUE]

\* the closure `check` of _waitForWindowReady, run for the fired entry t
check(r, t) ==
    LET w == t.win
        attempts == t.attempts + 1
        cleared == [r EXCEPT !.windowStates[w].readyTimerId = NoTimer]
    IN  IF ~isWindowValid(r, w) THEN cleared
        ELSE IF isWindowReady(r, w) THEN processNewWindow(cleared, t.ws, w)
        ELSE IF attempts >= MaxAttempts THEN cleared
        ELSE [add(r, "window-ready", w, t.ws, attempts) EXCEPT
                  !.windowStates[w].readyTimerId = r.nextId,
                  !.windowStates[w].entry = TRUE]

onWindowAdded(r, ws, w) ==
    IF includes(r.tiled[ws], w) \/ includes(r.exceptions[ws], w) THEN r
    ELSE waitForWindowReady(r, ws, w)

\* _onWindowRemoved() without _clearOperationTimestamp(windowId)
onWindowRemovedKeepsCooldown(r, ws, w) ==
    LET rt == r.windowStates[w].readyTimerId
        r1 == IF rt # NoTimer
              THEN [remove(r, rt) EXCEPT !.windowStates[w].readyTimerId = NoTimer]
              ELSE r
        r2 == IF ws # NoIndex THEN removeWindow(r1, ws, w)
              ELSE disconnectWindowWorkspaceSignal(
                       [r1 EXCEPT !.hostConn = @ \ (windowSignals(w) \cap r1.signalIds),
                                  !.signalIds = @ \ windowSignals(w)], w)
    IN  queueTile(r2)

\* _onWindowRemoved(workspace, win); ws = NoIndex is the null workspace (destroyed)
onWindowRemoved(r, ws, w) ==
    LET rt == r.windowStates[w].readyTimerId
        r1 == IF rt # NoTimer
              THEN [remove(r, rt) EXCEPT !.windowStates[w].readyTimerId = NoTimer]
              ELSE r
        r2 == IF ws # NoIndex THEN removeWindow(r1, ws, w)
              ELSE clearOperationTimestamp(
                       disconnectWindowWorkspaceSignal(
                           [r1 EXCEPT !.hostConn = @ \ (windowSignals(w) \cap r1.signalIds),
                                      !.signalIds = @ \ windowSignals(w)], w), w)
    IN  queueTile(r2)

onWindowWorkspaceChanged(r, w, recent) ==
    IF ~isWindowValid(r, w) THEN r
    ELSE IF ~r.workspaceManager THEN r
    ELSE LET new == getWorkspace(r, w)
             prev == r.windowStates[w].prevWorkspaceIndex
             r1 == IF prev # NoIndex /\ prev >= 0 THEN removeWindow(r, prev, w) ELSE r
             r2 == IF ~includes(r1.tiled[new], w) /\ ~includes(r1.exceptions[new], w)
                   THEN IF isException(r1, w) THEN addWindow(r1, new, w, TRUE)
                        ELSE IF isTileable(r1, w) THEN addWindow(r1, new, w, FALSE)
                        ELSE r1
                   ELSE r1
             r3 == [r2 EXCEPT !.windowStates[w].prevWorkspaceIndex = new,
                              !.windowStates[w].entry = TRUE]
         IN  IF prev = new THEN r
             ELSE IF shouldSkipOperation(r, w, recent) THEN r
             ELSE queueTile(recordOperation(r3, w))

onActiveWorkspaceChanged(r) == IF ~r.workspaceManager THEN r ELSE queueTile(r)

loadExceptions(r) == [r EXCEPT !.exceptionSet = r.settings.exceptions]

onSettingsChanged(r) ==
    LET r1 == loadExceptions(r)
    IN  IF r1.settings.tilingEnabled THEN queueTile(r1) ELSE r1

\* the callback of _centerWindow for the fired entry t: the window is moved to
\* the centre of its work area (no tracked state changes) and may be unmaximized
centerCallback(r, t) ==
    LET w == t.win
        r1 == [r EXCEPT !.centerTimeoutIds = without(@, t.id)]
    IN  IF ~isWindowValid(r1, w) THEN r1
        ELSE IF ~r1.workspaceManager THEN r1
        ELSE IF ~r1.settings.respectMax /\ r1.win[w].maximized
             THEN [r1 EXCEPT !.win[w].maximized = FALSE]
             ELSE r1

\* -------------------------------------------------- InteractionHandler
\* _swapWithPrimary(); foc: global.display.get_focus_window() (NoWin: none)
\* w[0]?.activate(...) on the list as the handler left it
activateFirst(r) ==
    [r EXCEPT !.activated = IF windows(r) = << >> THEN NoWin ELSE windows(r)[1]]

\* _swapWithPrimary() without its two early returns
swapWithPrimaryUnchecked(r, foc, monitor) ==
    LET w == windows(r)
        idx == indexOf(w, foc)
    IN  activateFirst(tileNow([r EXCEPT !.tiled[r.activeWs] =
                                  IF Len(w) < 2 THEN w
                                  ELSE IF idx > 1 THEN swap(w, 1, idx)
                                  ELSE swap(w, 1, 2)], monitor))

swapWithPrimary(r, foc, monitor) ==
    LET w == windows(r)
        idx == indexOf(w, foc)
    IN  IF Len(w) < 2 THEN r
        ELSE IF foc = NoWin \/ ~includes(w, foc) THEN r
        ELSE activateFirst(tileNow([r EXCEPT !.tiled[r.activeWs] =
                                       IF idx > 1 THEN swap(w, 1, idx) ELSE swap(w, 1, 2)],
                                   monitor))

Directions == {"left", "right", "up", "down"}

\* _swapInDirection() writing the target over the source instead of exchanging
swapInDirectionOverwrite(r, src, direction, found, monitor) ==
    LET w == windows(r)
        idx == indexOf(w, src)
        tgt == IF idx = 1 /\ direction = "right" /\ Len(w) > 1 THEN w[2] ELSE found
    IN  IF src = NoWin \/ ~includes(w, src) THEN r
        ELSE IF tgt = NoWin THEN r
        ELSE [tileNow([r EXCEPT !.tiled[r.activeWs] = [w EXCEPT ![idx] = tgt]],
                      monitor) EXCEPT !.activated = src]

\* _swapInDirection(direction); src: the focused window (NoWin: none); found:
\* what _findTargetInDirection returns for the frames of the moment, a tiled
\* window other than src or NoWin
swapInDirection(r, src, direction, found, monitor) ==
    LET w == windows(r)
        idx == indexOf(w, src)
        tgt == IF idx = 1 /\ direction = "right" /\ Len(w) > 1 THEN w[2] ELSE found
    IN  IF src = NoWin \/ ~includes(w, src) THEN r
        ELSE IF tgt = NoWin THEN r
        ELSE [tileNow([r EXCEPT !.tiled[r.activeWs] = swap(w, idx, indexOf(w, tgt))],
                      monitor) EXCEPT !.activated = src]

\* _findTargetInDirection(src, dir) on the frame rectangles rects of
\* tiler.windows in list order; windows are named by their position in the
\* list, s is the position of src and 0 is null.
abs(a) == IF a < 0 THEN -a ELSE a

\* the test that pushes a window with frame r to cand
onSide(r, sRect, dir) ==
    CASE dir = "left" -> r.x < sRect.x
      [] dir = "right" -> r.x > sRect.x
      [] dir = "up" -> r.y < sRect.y
      [] dir = "down" -> r.y > sRect.y

cand(rects, s, dir) ==
    SelectSeq([i \in 1..Len(rects) |-> i],
              LAMBDA i : i # s /\ onSide(rects[i], rects[s], dir))

dev(r, sRect, dir) ==
    IF dir \in {"left", "right"} THEN abs(sRect.y - r.y) ELSE abs(sRect.x - r.x)

\* the second loop with `dev <= min`; best = 0 stands for min = Infinity
RECURSIVE bestOfLast(_, _, _, _, _)
bestOfLast(c, rects, s, dir, best) ==
    IF c = << >> THEN best
    ELSE LET d == dev(rects[Head(c)], rects[s], dir)
         IN  bestOfLast(Tail(c), rects, s, dir,
                        IF best = 0 THEN Head(c)
                        ELSE IF d <= dev(rects[best], rects[s], dir) THEN Head(c)
                        ELSE best)

\* the second loop over cand; best = 0 stands for best = null, min = Infinity
RECURSIVE bestOf(_, _, _, _, _)
bestOf(c, rects, s, dir, best) ==
    IF c = << >> THEN best
    ELSE LET d == dev(rects[Head(c)], rects[s], dir)
         IN  bestOf(Tail(c), rects, s, dir,
                    IF best = 0 THEN Head(c)
                    ELSE IF d < dev(rects[best], rects[s], dir) THEN Head(c)
                    ELSE best)

findTargetInDirection(rects, s, dir) ==
    IF cand(rects, s, dir) = << >> THEN 0
    ELSE bestOf(cand(rects, s, dir), rects, s, dir, 0)

\* the grab-op-begin handler
onGrabBegin(r, w) == IF includes(windows(r), w) THEN [r EXCEPT !.grabbedWindow = w] ELSE r

\* _onGrabEnd() retiling at once with tileNow() instead of queueTile()
onGrabEndNow(r, tgt) ==
    LET grabbed == r.grabbedWindow
        w == windows(r)
        a == indexOf(w, grabbed)
        b == indexOf(w, tgt)
        r1 == IF tgt # NoWin /\ a > 0 /\ b > 0 /\ r.trackerWm
              THEN [r EXCEPT !.tiled[r.activeWs] = swap(w, a, b)]
              ELSE r
    IN  IF grabbed = NoWin THEN r
        ELSE [tileNow(r1, TRUE) EXCEPT !.grabbedWindow = NoWin]

\* _onGrabEnd(); tgt: what _findTargetUnderPointer returns for the pointer and
\* the frames of the moment, a tiled window other than the grabbed one or NoWin
onGrabEnd(r, tgt) ==
    LET grabbed == r.grabbedWindow
        w == windows(r)
        a == indexOf(w, grabbed)
        b == indexOf(w, tgt)
        r1 == IF tgt # NoWin /\ a > 0 /\ b > 0 /\ r.trackerWm
              THEN [r EXCEPT !.tiled[r.activeWs] = swap(w, a, b)]
              ELSE r
    IN  IF grabbed = NoWin THEN r
        ELSE [queueTile(r1) EXCEPT !.grabbedWindow = NoWin]

\* the size-changed handler of _processNewWindow
onSizeChanged(r) == IF r.grabbedWindow = NoWin THEN queueTile(r) ELSE r

onWindowMinimizedStateChanged(r) == queueTile(r)

\* ------------------------------------------------------------ Tiler.disable
GlobalSignals == { <<"active-workspace-changed", NoWin>>, <<"workspace-added", NoWin>>,
                   <<"changed", NoWin>> }
HandlerSignals == { <<"handler-changed", NoWin>>, <<"grab-op-begin", NoWin>>,
                    <<"grab-op-end", NoWin>> }
TrackerSignals == { <<"window-added", ws>> : ws \in Workspaces } \cup
                  { <<"window-removed", ws>> : ws \in Workspaces }

disable(r) ==
    LET r1 == [clearAll(r) EXCEPT
                  !.tileTimeoutId = NoTimer,
                  !.centerTimeoutIds = << >>,
                  !.opStamps = {},
                  \* InteractionHandler.disable()
                  !.hostConn = (@ \ HandlerSignals) \ r.signalIds,
                  !.signalIds = {},
                  !.coalesced = 0,
                  !.epochPasses = 0]
    IN  trackerDisable(r1)

\* -------------------------------------------- SimpleTilingExtension.enable
\* new Tiler(extension): a fresh Tiler with its own registry, tracker and
\* interaction handler.  The window state store is module-level and is kept.
\* A handler a former Tiler left connected stays connected to that Tiler: it
\* is kept as <<signal, object, "old">>.
construct(r) ==
    [r EXCEPT !.grabbedWindow = NoWin,
              !.signalIds = {},
              !.tileInProgress = FALSE,
              !.exceptionSet = {},
              !.tileTimeoutId = NoTimer,
              !.centerTimeoutIds = << >>,
              !.opStamps = {},
              !.workspaceManager = FALSE,
              !.timeouts = {},
              !.nextId = 1,
              !.removalErrors = 0,
              !.workspaceSignals = {},
              !.tiled = [ws \in Workspaces |-> << >>],
              !.exceptions = [ws \in Workspaces |-> << >>],
              !.trackerWm = FALSE,
              !.hostConn = { <<c[1], c[2], "old">> : c \in @ },
              !.coalesced = 0,
              !.epochPasses = 0,
              !.enables = @ + 1]

\* the "add existing windows to tracking" loop of enable() over the windows of
\* workspace.list_windows(), workspace by workspace
RECURSIVE addExisting(_, _)
addExisting(r, listed) ==
    IF listed = << >> THEN r
    ELSE addExisting(onWindowAdded(r, Head(listed)[1], Head(listed)[2]), Tail(listed))

\* Tiler.enable(); listed: the <<workspace, window>> pairs of the loop in order
enable(r, listed) ==
    LET r0 == [loadExceptions(r) EXCEPT
                  !.workspaceManager = TRUE,
                  !.trackerWm = TRUE,
                  !.signalIds = GlobalSignals,
                  !.hostConn = @ \cup GlobalSignals]
        r1 == connectToAllWorkspaces(r0, 0)
        r2 == addExisting(r1, listed)
    IN  \* InteractionHandler.enable()
        [r2 EXCEPT !.hostConn = @ \cup HandlerSignals]

\* =================================================================== actions
\* a window that does not exist yet; a destroyed one differs in st only (nothing
\* reads the attributes of a window whose get_display() is null)
NoWindow == [st |-> "unborn", ws |-> 0, sticky |-> FALSE, cls |-> AppClass,
             minimized |-> FALSE, maximized |-> FALSE, ready |-> FALSE]

Idle == passCtx = "idle"

connected(r, sig, obj) == <<sig, obj>> \in r.hostConn

\* the host emits sig on obj: the handler h runs if it is connected
emit(r, sig, obj, h) == IF connected(r, sig, obj) THEN h ELSE r

\* the workspaces whose window list holds w
memberOf(r, w) == IF r.win[w].sticky THEN Workspaces ELSE { r.win[w].ws }

\* window-added on every workspace of ws..NumWorkspaces-1 that holds w, in index order
RECURSIVE emitAdded(_, _, _)
emitAdded(r, w, ws) ==
    IF ws \notin Workspaces THEN r
    ELSE emitAdded(IF ws \in memberOf(r, w)
                   THEN emit(r, "window-added", ws, onWindowAdded(r, ws, w))
                   ELSE r, w, ws + 1)

RECURSIVE emitRemoved(_, _, _, _)
emitRemoved(r, w, from, ws) ==
    IF ws \notin Workspaces THEN r
    ELSE emitRemoved(IF ws \in from
                     THEN emit(r, "window-removed", ws, onWindowRemoved(r, ws, w))
                     ELSE r, w, from, ws + 1)

\* A window is created (mapped) on workspace ws, or on all of them.
CreateWindow(w, ws, stick, c, rdy) ==
    /\ Idle
    /\ win[w].st = "unborn"
    /\ \A v \in Windows : v < w => win[v].st # "unborn"
    /\ LET r0 == [Cur EXCEPT !.win[w] = [st |-> "alive", ws |-> ws, sticky |-> stick,
                                         cls |-> c, minimized |-> FALSE,
                                         maximized |-> FALSE, ready |-> rdy]]
       IN  Commit(emitAdded(r0, w, 0))

\* The window gets its frame size, class and compositor actor.
BecomeReady(w) ==
    /\ Idle
    /\ win[w].st = "alive" /\ ~win[w].ready
    /\ Commit([Cur EXCEPT !.win[w].ready = TRUE])

\* The window is unmanaged: window-removed on its workspaces, then unmanaged;
\* the handlers connected on it go with it.
DestroyWindow(w) ==
    /\ Idle
    /\ win[w].st = "alive"
    /\ LET r1 == emitRemoved(Cur, w, memberOf(Cur, w), 0)
           r2 == [r1 EXCEPT !.win[w] = [NoWindow EXCEPT !.st = "dead"]]
           r3 == emit(r2, "unmanaged", w, onWindowRemoved(r2, NoIndex, w))
       IN  Commit([r3 EXCEPT !.hostConn = { c \in @ : c[2] # w \/ c \in GlobalSignals
                                                       \/ c \in HandlerSignals
                                                       \/ c \in TrackerSignals }])

\* The window is moved to another workspace; recent: the window's last recorded
\* operation, if any, is less than the 500 ms cooldown ago.
MoveWindow(w, to, recent) ==
    /\ Idle
    /\ win[w].st = "alive" /\ ~win[w].sticky /\ win[w].ws # to
    /\ LET from == win[w].ws
           r0 == [Cur EXCEPT !.win[w].ws = to]
           r1 == emit(r0, "window-removed", from, onWindowRemoved(r0, from, w))
           r2 == emit(r1, "window-added", to, onWindowAdded(r1, to, w))
           r3 == emit(r2, "workspace-changed", w, onWindowWorkspaceChanged(r2, w, recent))
       IN  Commit(r3)

ToggleMinimized(w) ==
    /\ Idle
    /\ win[w].st = "alive"
    /\ LET r0 == [Cur EXCEPT !.win[w].minimized = ~@]
       IN  Commit(emit(r0, "notify::minimized", w, onWindowMinimizedStateChanged(r0)))

\* The user maximizes or unmaximizes the window: its size changes.
ToggleMaximized(w) ==
    /\ Idle
    /\ win[w].st = "alive"
    /\ LET r0 == [Cur EXCEPT !.win[w].maximized = ~@]
       IN  Commit(emit(r0, "size-changed", w, onSizeChanged(r0)))

\* The window's size changes otherwise (a user resize, a client resize).
SizeChanged(w) ==
    /\ Idle
    /\ win[w].st = "alive"
    /\ connected(Cur, "size-changed", w)
    /\ Commit(onSizeChanged(Cur))

\* The window's class or application id changes; no signal is connected to that.
ClassChanged(w) ==
    /\ Idle
    /\ win[w].st = "alive"
    /\ Commit([Cur EXCEPT !.win[w].cls = IF @ = AppClass THEN ExcClass ELSE AppClass])

SwitchWorkspace(to) ==
    /\ Idle
    /\ activeWs # to
    /\ LET r0 == [Cur EXCEPT !.activeWs = to]
       IN  Commit(emit(r0, "active-workspace-changed", NoWin, onActiveWorkspaceChanged(r0)))

\* A settings key is written (preferences, the quick-settings toggle).
ChangeSetting(key) ==
    /\ Idle
    /\ LET r0 == CASE key = "tiling-enabled" -> [Cur EXCEPT !.settings.tilingEnabled = ~@]
                   [] key = "respect-maximized-windows" -> [Cur EXCEPT !.settings.respectMax = ~@]
                   [] key = "custom-exceptions" ->
                          [Cur EXCEPT !.settings.exceptions = IF @ = {} THEN {ExcClass} ELSE {}]
       IN  Commit(emit(r0, "changed", NoWin, onSettingsChanged(r0)))

\* A tiling-queue timer fires: the registry deletes the entry, then the callback
\* of queueTile calls _tileWindows.
FireTiling(t, monitor) ==
    /\ Idle
    /\ t \in timeouts /\ t.name = "tiling-queue" /\ t.src = "live"
    /\ Commit(beginPass(expire(Cur, t), "timer", monitor))

FireReady(t) ==
    /\ Idle
    /\ t \in timeouts /\ t.name = "window-ready" /\ t.src = "live"
    /\ Commit(check(expire(Cur, t), t))

FireCenter(t) ==
    /\ Idle
    /\ t \in timeouts /\ t.name = "center-window" /\ t.src = "live"
    /\ Commit(centerCallback(expire(Cur, t), t))

\* The host source of a pending entry goes away behind the registry's back: it is
\* removed by its GLib id elsewhere ("gone": source_remove finds nothing), or in a
\* way that makes source_remove throw ("fails").  It does not fire any more.
SourceLost(t, how) ==
    /\ Idle
    /\ t \in timeouts /\ t.src = "live"
    /\ Commit([Cur EXCEPT !.timeouts = (@ \ {t}) \cup { [t EXCEPT !.src = how] }])

\* move_resize_frame()/unmaximize() of the executing pass emits size-changed
SizeChangedInPass(w) ==
    /\ ~Idle
    /\ w \in placed
    /\ connected(Cur, "size-changed", w)
    /\ Commit(onSizeChanged(Cur))

\* the timer callback of queueTile without its two resets
endPassKeepsFlags(r) ==
    LET r1 == [r EXCEPT !.passCtx = "idle", !.placed = {}, !.passGate = FALSE]
    IN  IF tilingPending(r1) THEN r1 ELSE [r1 EXCEPT !.coalesced = 0, !.epochPasses = 0]

\* _tileWindows returns; the timer callback of queueTile then resets the flags
endPass(r) ==
    LET r1 == [r EXCEPT !.passCtx = "idle", !.placed = {}, !.passGate = FALSE]
        r2 == IF r.passCtx = "timer"
              THEN [r1 EXCEPT !.tileInProgress = FALSE, !.tileTimeoutId = NoTimer]
              ELSE r1
    IN  IF tilingPending(r2) THEN r2 ELSE [r2 EXCEPT !.coalesced = 0, !.epochPasses = 0]

TileEnd ==
    /\ ~Idle
    /\ Commit(endPass(Cur))

\* The ForceRetile D-Bus method, exported while the extension is enabled.
ForceRetile(monitor) ==
    /\ Idle
    /\ trackerWm
    /\ Commit(tileNow(Cur, monitor))

\* The swap-primary-window shortcut, bound while the extension is enabled.
SwapWithPrimary(foc, monitor) ==
    /\ Idle
    /\ trackerWm
    /\ foc \in {NoWin} \cup { w \in Windows : win[w].st = "alive" }
    /\ Commit(swapWithPrimary(Cur, foc, monitor))

\* A swap-left/right/up/down shortcut, bound while the extension is enabled.
SwapInDirection(src, direction, found, monitor) ==
    /\ Idle
    /\ trackerWm
    /\ src \in {NoWin} \cup { w \in Windows : win[w].st = "alive" }
    /\ found \in {NoWin} \cup (Range(windows(Cur)) \ {src})
    /\ Commit(swapInDirection(Cur, src, direction, found, monitor))

GrabBegin(w) ==
    /\ Idle
    /\ win[w].st = "alive"
    /\ connected(Cur, "grab-op-begin", NoWin)
    /\ Commit(onGrabBegin(Cur, w))

GrabEnd(tgt) ==
    /\ Idle
    /\ connected(Cur, "grab-op-end", NoWin)
    /\ tgt \in {NoWin} \cup (Range(windows(Cur)) \ {grabbedWindow})
    /\ Commit(onGrabEnd(Cur, tgt))

Disable ==
    /\ Idle
    /\ trackerWm
    /\ Commit(disable(Cur))

\* the workspace-added handler of Tiler.enable()
onWorkspaceAdded(r, index) ==
    IF ~r.workspaceManager THEN r ELSE connectToWorkspace(r, index)

\* The host appends a new (empty) workspace object and emits workspace-added.
AppendWorkspace ==
    /\ Idle
    /\ \E o \in WorkspaceObjects \ Range(workspaceObjs) :
          /\ \A p \in WorkspaceObjects \ Range(workspaceObjs) : o <= p
          /\ LET r0 == [Cur EXCEPT !.workspaceObjs = Append(@, o)]
                 index == Len(workspaceObjs)
             IN  Commit(emit(r0, "workspace-added", NoWin, onWorkspaceAdded(r0, index)))

\* The host removes the empty workspace at index: the object is destroyed with
\* the handlers connected to it, and the workspaces behind it move up.  The
\* extension has no handler for that.
RemoveWorkspace(index) ==
    /\ Idle
    /\ index < Len(workspaceObjs) /\ index # activeWs
    /\ \A w \in Windows : win[w].st # "alive"
    /\ LET o == workspaceObjs[index + 1]
       IN  Commit([Cur EXCEPT !.workspaceObjs = without(@, o),
                              !.wsSubs[o] = NoSubs])

\* the windows workspace ws lists, in the host's order: oldest or newest first
listWindows(r, ws, newestFirst) ==
    LET n == Cardinality({ w \in Windows : r.win[w].st = "alive" /\ ws \in memberOf(r, w) })
        on == SelectSeq([i \in 1..NumWindows |-> IF newestFirst THEN NumWindows + 1 - i ELSE i],
                        LAMBDA w : r.win[w].st = "alive" /\ ws \in memberOf(r, w))
    IN  [i \in 1..n |-> <<ws, on[i]>>]

RECURSIVE listAll(_, _, _)
listAll(r, ws, newestFirst) ==
    IF ws \notin Workspaces THEN << >>
    ELSE listWindows(r, ws, newestFirst) \o listAll(r, ws + 1, newestFirst)

\* The extension is enabled again after a disable: SimpleTilingExtension.enable()
\* constructs a new Tiler and enables it.
Enable(newestFirst) ==
    /\ Idle
    /\ ~trackerWm
    /\ enables < MaxEnables
    /\ Commit(enable(construct(Cur), listAll(Cur, 0, newestFirst)))

\* ================================================================== layout
\* The rectangles of a layout pass as a function of the number n of windows to
\* tile and of the geometry g; frame i is the one of windowsToTile[i - 1].
Rect(x, y, width, height) == [x |-> x, y |-> y, width |-> width, height |-> height]

\* Math.floor(a / 2)
half(a) == a \div 2

\* innerArea without the outer gaps
innerAreaUngapped(g) == Rect(g.x, g.y, g.width, g.height)

\* innerArea of _tileWindows
innerArea(g) ==
    Rect(g.x + g.outerGapH, g.y + g.outerGapV,
         g.width - 2 * g.outerGapH, g.height - 2 * g.outerGapV)

\* the column left of the split and the area right of it
leftOf(area, innerGap) ==
    Rect(area.x, area.y, half(area.width) - half(innerGap), area.height)

rightOf(area, innerGap) ==
    LET primaryWidth == half(area.width) - half(innerGap)
    IN  Rect(area.x + primaryWidth + innerGap, area.y,
             area.width - primaryWidth - innerGap, area.height)

\* the row above the split and the area below it
topOf(area, innerGap) ==
    Rect(area.x, area.y, area.width, half(area.height) - half(innerGap))

bottomOf(area, innerGap) ==
    LET primaryHeight == half(area.height) - half(innerGap)
    IN  Rect(area.x, area.y + primaryHeight + innerGap,
             area.width, area.height - primaryHeight - innerGap)

\* _splitLayout that splits left/right whatever the area's shape
RECURSIVE splitLayoutColumns(_, _, _)
splitLayoutColumns(n, area, innerGap) ==
    IF n = 0 THEN << >>
    ELSE IF n = 1 THEN << area >>
    ELSE << leftOf(area, innerGap) >>
             \o splitLayoutColumns(n - 1, rightOf(area, innerGap), innerGap)

\* _splitLayout(windows, area) for n = windows.length
RECURSIVE splitLayout(_, _, _)
splitLayout(n, area, innerGap) ==
    IF n = 0 THEN << >>
    ELSE IF n = 1 THEN << area >>
    ELSE IF area.width > area.height
    THEN splitLayout(1, leftOf(area, innerGap), innerGap)
             \o splitLayout(n - 1, rightOf(area, innerGap), innerGap)
    ELSE splitLayout(1, topOf(area, innerGap), innerGap)
             \o splitLayout(n - 1, bottomOf(area, innerGap), innerGap)

\* the layout of _tileWindows with the primary's width less the whole inner gap
tileFramesWholeGap(n, g) ==
    LET inner == innerArea(g)
        primaryWidth == half(inner.width) - g.innerGap
    IN  IF n = 0 THEN << >>
        ELSE IF n = 1 THEN << inner >>
        ELSE << Rect(inner.x, inner.y, primaryWidth, inner.height) >>
                 \o splitLayout(n - 1, Rect(inner.x + primaryWidth + g.innerGap, inner.y,
                                            inner.width - primaryWidth - g.innerGap,
                                            inner.height), g.innerGap)

\* the layout part of _tileWindows for n = windowsToTile.length
tileFrames(n, g) ==
    LET inner == innerArea(g)
    IN  IF n = 0 THEN << >>
        ELSE IF n = 1 THEN << inner >>
        ELSE << leftOf(inner, g.innerGap) >>
                 \o splitLayout(n - 1, rightOf(inner, g.innerGap), g.innerGap)

\* ==================================================================== Spec
\* The state after new Tiler(extension) and enable() with no window open yet, for
\* the given values of new-window-behavior and of the exception treatment keys.
InitWith(behaviors, treatments) ==
    /\ win = [w \in Windows |-> NoWindow]
    /\ activeWs = 0
    /\ settings \in { [tilingEnabled |-> TRUE, respectMax |-> FALSE,
                        exceptions |-> {ExcClass}, newWindowBehavior |-> b,
                        exceptionsAlways |-> t] : b \in behaviors, t \in treatments }
    /\ hostConn = GlobalSignals \cup HandlerSignals \cup TrackerSignals
    /\ workspaceManager = TRUE
    /\ signalIds = GlobalSignals
    /\ tileInProgress = FALSE
    /\ tileTimeoutId = NoTimer
    /\ centerTimeoutIds = << >>
    /\ exceptionSet = {ExcClass}
    /\ opStamps = {}
    /\ grabbedWindow = NoWin
    /\ trackerWm = TRUE
    /\ tiled = [ws \in Workspaces |-> << >>]
    /\ exceptions = [ws \in Workspaces |-> << >>]
    /\ workspaceSignals = TrackerSignals
    /\ timeouts = {}
    /\ nextId = 1
    /\ removalErrors = 0
    /\ windowStates = [w \in Windows |-> [entry |-> FALSE,
                                         workspaceSignalId |-> FALSE,
                                         prevWorkspaceIndex |-> NoIndex,
                                         readyTimerId |-> NoTimer]]
    /\ passCtx = "idle"
    /\ placed = {}
    /\ passGate = FALSE
    /\ coalesced = 0
    /\ epochPasses = 0
    /\ activated = NoWin
    /\ enables = 1
    /\ workspaceObjs = [i \in 1..NumWorkspaces |-> i]
    /\ wsSubs = [o \in WorkspaceObjects |->
                    IF o <= NumWorkspaces THEN [added |-> 1, removed |-> 1] ELSE NoSubs]

Init == InitWith({"stack", "primary"}, {TRUE}) /\ NoLayout

\* The scheduler and its gates: two windows of either class on workspace 0, every
\* trigger of queueTile() and tileNow() there, the settings that gate them, the
\* timers, and disable().
Next ==
    \/ \E w \in Windows, c \in {AppClass, ExcClass} : CreateWindow(w, 0, FALSE, c, TRUE)
    \/ \E w \in Windows : DestroyWindow(w)
    \/ \E w \in Windows : ToggleMinimized(w)
    \/ \E w \in Windows : ToggleMaximized(w)
    \/ \E w \in Windows : SizeChanged(w)
    \/ \E to \in Workspaces : SwitchWorkspace(to)
    \/ \E key \in {"tiling-enabled", "respect-maximized-windows"} : ChangeSetting(key)
    \/ \E t \in timeouts, monitor \in BOOLEAN : FireTiling(t, monitor)
    \/ \E t \in timeouts : FireCenter(t)
    \/ \E w \in Windows : SizeChangedInPass(w)
    \/ TileEnd
    \/ \E monitor \in BOOLEAN : ForceRetile(monitor)
    \/ \E foc \in Windows \cup {NoWin}, monitor \in BOOLEAN : SwapWithPrimary(foc, monitor)
    \/ \E w \in Windows : GrabBegin(w)
    \/ \E tgt \in Windows \cup {NoWin} : GrabEnd(tgt)
    \/ Disable

Spec == Init /\ [][Next]_vars

\* The same with the host firing every pending timer and every pass returning.
SpecLive ==
    /\ Spec
    /\ WF_vars(\E t \in timeouts, monitor \in BOOLEAN : FireTiling(t, monitor))
    /\ WF_vars(\E t \in timeouts : FireCenter(t))
    /\ WF_vars(TileEnd)

\* Tracking: windows of either class on either workspace or on all of them, class
\* and exception-list changes, moves between workspaces, layout passes, disable().
InitTrack == InitWith({"stack"}, {FALSE}) /\ NoLayout

NextTrack ==
    \/ \E w \in Windows, ws \in Workspaces, stick \in BOOLEAN, c \in {AppClass, ExcClass} :
          CreateWindow(w, ws, stick, c, TRUE)
    \/ \E w \in Windows : DestroyWindow(w)
    \/ \E w \in Windows, to \in Workspaces, recent \in BOOLEAN : MoveWindow(w, to, recent)
    \/ \E w \in Windows : ClassChanged(w)
    \/ \E to \in Workspaces : SwitchWorkspace(to)
    \/ ChangeSetting("custom-exceptions")
    \/ \E t \in timeouts : FireTiling(t, TRUE)
    \/ \E w \in Windows : SizeChangedInPass(w)
    \/ TileEnd
    \/ ForceRetile(TRUE)
    \/ Disable

SpecTrack == InitTrack /\ [][NextTrack]_vars

\* Timers: windows that are ready or still polled for readiness, of either
\* class, created and destroyed on workspace 0; the retile, readiness and
\* centering timers; host sources lost behind the registry's back; disable().
InitTimers == InitWith({"stack"}, {TRUE}) /\ NoLayout

NextTimers ==
    \/ \E w \in Windows, c \in {AppClass, ExcClass}, rdy \in BOOLEAN :
          CreateWindow(w, 0, FALSE, c, rdy)
    \/ \E w \in Windows : BecomeReady(w)
    \/ \E w \in Windows : DestroyWindow(w)
    \/ \E w \in Windows : ClassChanged(w)
    \/ \E t \in timeouts : FireTiling(t, TRUE)
    \/ \E t \in timeouts : FireReady(t)
    \/ \E t \in timeouts : FireCenter(t)
    \/ \E t \in timeouts, how \in {"gone", "fails"} : SourceLost(t, how)
    \/ TileEnd
    \/ Disable

SpecTimers == InitTimers /\ [][NextTimers]_vars

\* Swaps: tileable and exception windows on workspace 0, the retile timer, the
\* tiling-enabled switch, and the keyboard swap commands with any focused window.
NextSwap ==
    \/ \E w \in Windows, c \in {AppClass, ExcClass} : CreateWindow(w, 0, FALSE, c, TRUE)
    \/ \E w \in Windows : DestroyWindow(w)
    \/ ChangeSetting("tiling-enabled")
    \/ \E t \in timeouts : FireTiling(t, TRUE)
    \/ \E w \in Windows : SizeChangedInPass(w)
    \/ TileEnd
    \/ \E foc \in Windows \cup {NoWin} : SwapWithPrimary(foc, TRUE)
    \/ \E src \in Windows \cup {NoWin}, direction \in Directions,
          found \in Windows \cup {NoWin} : SwapInDirection(src, direction, found, TRUE)

SpecSwap == InitTrack /\ [][NextSwap]_vars

\* Placement: application windows, ready or still polled for readiness, on
\* either workspace, with either new-window-behavior; moves between workspaces,
\* the readiness and retile timers.
InitPlace == InitWith({"stack", "primary"}, {FALSE}) /\ NoLayout

NextPlace ==
    \/ \E w \in Windows, ws \in Workspaces, rdy \in BOOLEAN :
          CreateWindow(w, ws, FALSE, AppClass, rdy)
    \/ \E w \in Windows : BecomeReady(w)
    \/ \E w \in Windows, to \in Workspaces : MoveWindow(w, to, FALSE)
    \/ \E t \in timeouts : FireReady(t)
    \/ \E t \in timeouts : FireTiling(t, TRUE)
    \/ TileEnd

SpecPlace == InitPlace /\ [][NextPlace]_vars

\* Re-enabling: windows of either class opened and closed on workspace 0, the
\* retile timer, disable() and a later enable() with a new Tiler.
NextReenable ==
    \/ \E w \in Windows, c \in {AppClass, ExcClass} : CreateWindow(w, 0, FALSE, c, TRUE)
    \/ \E w \in Windows : DestroyWindow(w)
    \/ \E t \in timeouts : FireTiling(t, TRUE)
    \/ TileEnd
    \/ Disable
    \/ \E newestFirst \in BOOLEAN : Enable(newestFirst)

SpecReenable == InitTrack /\ [][NextReenable]_vars

\* Workspaces: the host appends and removes empty workspaces; disable() and a
\* later enable().
NextWorkspaces ==
    \/ AppendWorkspace
    \/ \E index \in 0..(MaxWorkspaceObjects - 1) : RemoveWorkspace(index)
    \/ Disable
    \/ \E newestFirst \in BOOLEAN : Enable(newestFirst)

SpecWorkspaces == InitTrack /\ [][NextWorkspaces]_vars

\* Layout: the rectangles _tileWindows and _splitLayout compute, for every small
\* work area and gap setting and for a full-size one, and up to MaxTiled windows.
Geometries ==
    { [x |-> 0, y |-> y, width |-> w, height |-> h,
       innerGap |-> ig, outerGapH |-> og, outerGapV |-> og] :
         y \in {0, 1}, w \in 1..MaxSide, h \in 1..MaxSide, ig \in 0..MaxGap,
         og \in 0..MaxOuterGap }

InitLayout ==
    /\ InitWith({"stack"}, {FALSE})
    /\ geometry \in Geometries \cup {ExampleGeometry}
    /\ frames = << >>

\* a layout pass over n windows to tile
LayoutPass(n) ==
    /\ frames' = tileFrames(n, geometry)
    /\ UNCHANGED << win, activeWs, settings, hostConn, workspaceManager, signalIds,
                    tileInProgress, tileTimeoutId, centerTimeoutIds, exceptionSet,
                    opStamps, grabbedWindow, trackerWm, tiled, exceptions,
                    workspaceSignals, timeouts, nextId, removalErrors, windowStates,
                    passCtx, placed, passGate, coalesced, epochPasses, activated,
                    enables, workspaceObjs, wsSubs, geometry >>

NextLayout == \E n \in 1..MaxTiled : LayoutPass(n)

SpecLayout == InitLayout /\ [][NextLayout]_vars

\* Target selection: the frame rectangles of up to MaxTiled windows of the
\* active tiled list, anywhere on a small grid; the host moves windows and the
\* focus-left/right/up/down shortcuts pick their target.
Origins == { Rect(x, y, 1, 1) : x \in 0..MaxOrigin, y \in 0..MaxOrigin }

InitTarget ==
    /\ InitWith({"stack"}, {FALSE})
    /\ geometry = ExampleGeometry
    /\ frames \in UNION { [1..n -> Origins] : n \in 0..MaxTiled }

\* The host moves the window at position i of the list to (x, y).
MoveFrame(i, x, y) ==
    /\ i \in 1..Len(frames)
    /\ frames' = [frames EXCEPT ![i] = Rect(x, y, @.width, @.height)]
    /\ UNCHANGED << win, activeWs, settings, hostConn, workspaceManager, signalIds,
                    tileInProgress, tileTimeoutId, centerTimeoutIds, exceptionSet,
                    opStamps, grabbedWindow, trackerWm, tiled, exceptions,
                    workspaceSignals, timeouts, nextId, removalErrors, windowStates,
                    passCtx, placed, passGate, coalesced, epochPasses, activated,
                    enables, workspaceObjs, wsSubs, geometry >>

\* _focusInDirection(direction) with the window at position s focused: the
\* target, if any, is activated (activated holds its position)
FocusInDirection(s, direction) ==
    /\ s \in 1..Len(frames)
    /\ activated' = findTargetInDirection(frames, s, direction)
    /\ UNCHANGED << win, activeWs, settings, hostConn, workspaceManager, signalIds,
                    tileInProgress, tileTimeoutId, centerTimeoutIds, exceptionSet,
                    opStamps, grabbedWindow, trackerWm, tiled, exceptions,
                    workspaceSignals, timeouts, nextId, removalErrors, windowStates,
                    passCtx, placed, passGate, coalesced, epochPasses,
                    enables, workspaceObjs, wsSubs, geometry, frames >>

NextTarget ==
    \/ \E i \in 1..MaxTiled, x \in 0..MaxOrigin, y \in 0..MaxOrigin : MoveFrame(i, x, y)
    \/ \E s \in 1..MaxTiled, direction \in Directions : FocusInDirection(s, direction)

SpecTarget == InitTarget /\ [][NextTarget]_vars

\* Tracker lists: addWindow() and removeWindow() called for any window and
\* workspace, in any order, on the lists they have built.
TrackedWindows == 1..MaxTracked

AddWindow(ws, w, isExc) == Commit(addWindow(Cur, ws, w, isExc))

RemoveWindow(ws, w) == Commit(removeWindow(Cur, ws, w))

NextLists ==
    \/ \E ws \in Workspaces, w \in TrackedWindows, isExc \in BOOLEAN : AddWindow(ws, w, isExc)
    \/ \E ws \in Workspaces, w \in TrackedWindows : RemoveWindow(ws, w)

SpecLists == InitTrack /\ [][NextLists]_vars

\* Recheck: windows of either class on workspace 0 that are minimized and
\* whose class changes while they are tiled; the retile and centring timers
\* and the layout passes.
NextRecheck ==
    \/ \E w \in Windows, c \in {AppClass, ExcClass} : CreateWindow(w, 0, FALSE, c, TRUE)
    \/ \E w \in Windows : ToggleMinimized(w)
    \/ \E w \in Windows : ClassChanged(w)
    \/ \E t \in timeouts : FireTiling(t, TRUE)
    \/ \E t \in timeouts : FireCenter(t)
    \/ TileEnd

SpecRecheck == InitTimers /\ [][NextRecheck]_vars

\* Stale entries: application windows on either workspace that are minimized,
\* moved and destroyed, before and after disable(); the retile timer and the
\* layout passes.
NextStale ==
    \/ \E w \in Windows, ws \in Workspaces : CreateWindow(w, ws, FALSE, AppClass, TRUE)
    \/ \E w \in Windows : DestroyWindow(w)
    \/ \E w \in Windows, to \in Workspaces : MoveWindow(w, to, FALSE)
    \/ \E w \in Windows : ToggleMinimized(w)
    \/ \E t \in timeouts : FireTiling(t, TRUE)
    \/ TileEnd
    \/ Disable

SpecStale == InitTrack /\ [][NextStale]_vars

\* Reordering: windows of either class on workspace 0 whose class may change
\* while they are tiled, the retile timer and its passes, the keyboard swaps
\* with any focused window, and drags.
NextReorder ==
    \/ \E w \in Windows, c \in {AppClass, ExcClass} : CreateWindow(w, 0, FALSE, c, TRUE)
    \/ \E w \in Windows : ClassChanged(w)
    \/ \E t \in timeouts : FireTiling(t, TRUE)
    \/ TileEnd
    \/ \E foc \in Windows \cup {NoWin} : SwapWithPrimary(foc, TRUE)
    \/ \E src \in Windows \cup {NoWin}, direction \in Directions,
          found \in Windows \cup {NoWin} : SwapInDirection(src, direction, found, TRUE)
    \/ \E w \in Windows : GrabBegin(w)
    \/ \E tgt \in Windows \cup {NoWin} : GrabEnd(tgt)

SpecReorder == InitTrack /\ [][NextReorder]_vars

\* ================================================================ properties
tilingTimers == { t \in timeouts : t.name = "tiling-queue" }

maximizedGate == settings.respectMax /\ hasMaximizedWindows(Cur)

\* the lists (workspace, kind) that hold window w
listsOf(w) ==
    { <<ws, "tiled">> : ws \in { v \in Workspaces : includes(tiled[v], w) } }
      \cup { <<ws, "exceptions">> : ws \in { v \in Workspaces : includes(exceptions[v], w) } }

\* C1: while the Tiler is enabled, at most one retile timer is scheduled in the
\* timeout registry, and at most one layout pass is executing (the executing
\* pass is the one named by passCtx, and a pass only begins when none executes).
C1_AtMostOneRetile ==
    trackerWm => /\ Cardinality(tilingTimers) <= 1
                 /\ passCtx \in {"idle", "timer", "now"}
                 /\ (passCtx = "idle" => placed = {})

\* a retile timer is pending and a further queueTile() call was dropped for it
C1_Witness == trackerWm /\ Cardinality(tilingTimers) = 1 /\ coalesced >= 1

\* C2: the queueTile() calls made between the one that sets the debounce timer
\* and the firing of that timer lead to exactly one layout pass: none begins
\* while the timer is pending, and the firing begins the first and only one.
C2_OnePassPerWindow ==
    /\ tilingTimers # {} => epochPasses = 0
    /\ passCtx = "timer" => epochPasses = 1

\* the timer has fired after three calls (two of them dropped) and its pass runs
C2_Witness == passCtx = "timer" /\ coalesced >= 2 /\ epochPasses = 1

\* C3: a retile is never starved.  With the host firing the timers and unless
\* the extension is disabled first, a scheduled retile timer leads to a layout
\* pass; and whenever the enabled Tiler is idle with no retile pending, tiling
\* enabled and the maximized gate not applying, a queueTile() call schedules a
\* timer (so also after a pass that returned, early or not).
C3_NeverStarved ==
    /\ (tilingTimers # {}) ~> (passCtx = "timer" \/ ~trackerWm)
    /\ [](trackerWm /\ Idle /\ tilingTimers = {} /\ settings.tilingEnabled /\ ~maximizedGate
            => tilingPending(queueTile(Cur)))

\* the timer's pass is executing and aborted early (no windows or no monitor)
C3_Witness == passCtx = "timer" /\ placed = {} /\ trackerWm

\* C4: in every state where tiling is enabled and no layout pass is executing,
\* tileNow() executes the layout pass.
C4_TileNowRuns ==
    trackerWm /\ Idle /\ settings.tilingEnabled
        => \A monitor \in BOOLEAN : tileNow(Cur, monitor).passCtx = "now"

\* C5: a layout pass applies window geometry only while tiling-enabled is true.
C5_EnabledGate == placed # {} => settings.tilingEnabled

\* C6: no layout pass runs for the active workspace when it begins with
\* respect-maximized-windows true and a non-minimized maximized window in the
\* workspace's tiled list.
C6_MaximizedGate == placed # {} => ~passGate

\* C7: each window is in at most one of the lists tiled and exceptions, of at
\* most one workspace.
C7_OneListOneWorkspace == \A w \in Windows : Cardinality(listsOf(w)) <= 1

\* C8: a layout pass never applies tiling geometry to a window whose class is in
\* the exception set when the pass runs.
C8_NoExceptionTiled == \A w \in placed : ~isException(Cur, w)

\* a pass placed a window while another one, tiled when it was added (its
\* signals are connected), has the exception class and was moved to exceptions
C8_Witness ==
    /\ placed # {}
    /\ \E w \in Windows : /\ win[w].st = "alive"
                          /\ isException(Cur, w)
                          /\ <<"unmanaged", w>> \in signalIds
                          /\ includes(exceptions[activeWs], w)

\* C9: once disable() has returned, no handler of the extension is connected.
C9_AllDisconnected == ~trackerWm => hostConn = {}

\* C10: once disable() has returned, no timer is registered in the registry and
\* no layout pass executes.
C10_NoActivity == ~trackerWm => timeouts = {} /\ passCtx = "idle"

\* C11: clearAll() leaves count = 0 in every registry state, also when the host
\* removal of an entry finds nothing or throws; and so does Tiler.disable().
C11_ClearAllEmpties == count(clearAll(Cur)) = 0 /\ count(disable(Cur)) = 0

\* disable() has returned with the registry empty after its clearAll() logged a
\* removal failure
C11_Witness == ~trackerWm /\ timeouts = {} /\ removalErrors >= 1

\* C12: when a wired window (its unmanaged handler is connected) is destroyed,
\* afterwards the window state store holds no entry for it and no pending
\* timer refers to it.
C12_DestroyRoundTrip ==
    [][\A w \in Windows :
          (win[w].st = "alive" /\ win'[w].st = "dead" /\ connected(Cur, "unmanaged", w))
              => /\ ~windowStates'[w].entry
                 /\ \A t \in timeouts' : t.win # w]_vars

\* ------------------------------------------------------------- layout claims
FrameSet == { frames[i] : i \in 1..Len(frames) }

inner == innerArea(geometry)

Positive(f) == f.width > 0 /\ f.height > 0

Inside(f, area) ==
    /\ f.x >= area.x /\ f.x + f.width <= area.x + area.width
    /\ f.y >= area.y /\ f.y + f.height <= area.y + area.height

Overlap(a, b) ==
    /\ a.x < b.x + b.width /\ b.x < a.x + a.width
    /\ a.y < b.y + b.height /\ b.y < a.y + a.height

SharesRows(a, b) == a.y < b.y + b.height /\ b.y < a.y + a.height

SharesColumns(a, b) == a.x < b.x + b.width /\ b.x < a.x + a.width

\* every side of f lies on the border of the inner area or exactly one inner gap
\* away from the facing side of another frame
Abuts(f) ==
    /\ \/ f.x = inner.x
       \/ \E g \in FrameSet : g.x + g.width + geometry.innerGap = f.x /\ SharesRows(f, g)
    /\ \/ f.x + f.width = inner.x + inner.width
       \/ \E g \in FrameSet : f.x + f.width + geometry.innerGap = g.x /\ SharesRows(f, g)
    /\ \/ f.y = inner.y
       \/ \E g \in FrameSet : g.y + g.height + geometry.innerGap = f.y /\ SharesColumns(f, g)
    /\ \/ f.y + f.height = inner.y + inner.height
       \/ \E g \in FrameSet : f.y + f.height + geometry.innerGap = g.y /\ SharesColumns(f, g)

ExactTiling ==
    /\ \A i, j \in 1..Len(frames) : i # j => ~Overlap(frames[i], frames[j])
    /\ \A f \in FrameSet : Inside(f, inner) /\ Abuts(f)

Near(f, x, y, width, height) ==
    /\ f.x \in (x - 1)..(x + 1) /\ f.y \in (y - 1)..(y + 1)
    /\ f.width \in (width - 1)..(width + 1) /\ f.height \in (height - 1)..(height + 1)

\* C13: after a layout pass the frames are pairwise non-overlapping, lie inside
\* the inner area, leave only strips of the inner-gap width between them, and
\* none has a zero or negative width or height.
C13_ExactTiling == frames # << >> => ExactTiling /\ \A f \in FrameSet : Positive(f)

\* C14: with two or more windows the primary gets the left half of the inner
\* area when the area is wider than tall, and the top half otherwise.
C14_TopLevelAxis ==
    Len(frames) >= 2 =>
        /\ frames[1].x = inner.x /\ frames[1].y = inner.y
        /\ IF inner.width > inner.height
           THEN frames[1].height = inner.height /\ frames[1].width < inner.width
           ELSE frames[1].width = inner.width /\ frames[1].height < inner.height

\* C15: a single window gets exactly the inner area, the work area less the
\* outer gaps, with no inner gap subtracted.
C15_SingleWindow ==
    Len(frames) = 1 =>
        frames[1] = Rect(geometry.x + geometry.outerGapH, geometry.y + geometry.outerGapV,
                         geometry.width - 2 * geometry.outerGapH,
                         geometry.height - 2 * geometry.outerGapV)

\* one window laid out with outer and inner gaps set
C15_Witness == Len(frames) = 1 /\ geometry.outerGapH > 0 /\ geometry.innerGap > 0

\* C16: two windows, inner area of width W wider than tall: the primary is the
\* left column of width floor(W/2) - floor(innerGap/2) at the area's origin, the
\* stack window starts one inner gap right of it and takes the rest; both have
\* the full height.
C16_TwoWindows ==
    Len(frames) = 2 /\ inner.width > inner.height =>
        LET primaryWidth == (inner.width \div 2) - (geometry.innerGap \div 2)
        IN  /\ frames[1] = Rect(inner.x, inner.y, primaryWidth, inner.height)
            /\ frames[2] = Rect(inner.x + primaryWidth + geometry.innerGap, inner.y,
                                inner.width - primaryWidth - geometry.innerGap,
                                inner.height)

\* two windows, a wide inner area of odd width, an odd inner gap
C16_Witness ==
    /\ Len(frames) = 2 /\ inner.width > inner.height
    /\ inner.width % 2 = 1 /\ geometry.innerGap % 2 = 1

\* C17 as stated: three windows, work area 1920x1040 at (0,20), inner gap 10,
\* outer gaps 20: primary at (20,20,935,1000), second at (965,20,935,495), third
\* at (965,525,935,495), each coordinate within 1 px.
C17_ExampleAsStated ==
    geometry = ExampleGeometry /\ Len(frames) = 3 =>
        /\ Near(frames[1], 20, 20, 935, 1000)
        /\ Near(frames[2], 965, 20, 935, 495)
        /\ Near(frames[3], 965, 525, 935, 495)

\* C17, amended: for that input the primary is at (20,40,935,1000), the second
\* window at (965,40,935,495) and the third at (965,545,935,495): the outer gap
\* is added to the work area's y origin 20.
C17_Example ==
    geometry = ExampleGeometry /\ Len(frames) = 3 =>
        /\ frames[1] = Rect(20, 40, 935, 1000)
        /\ frames[2] = Rect(965, 40, 935, 495)
        /\ frames[3] = Rect(965, 545, 935, 495)

\* the example's three windows have been laid out
C17_Witness == geometry = ExampleGeometry /\ Len(frames) = 3

\* --------------------------------------------------------------- swap claims
\* the focused window cannot be swapped: there is none, or it is not in the
\* active workspace's tiled list
Untracked(foc) == foc = NoWin \/ ~includes(windows(Cur), foc)

\* C18: swap-with-primary with a tiled list of length 1, and any swap command
\* with the focused window absent or not in the active tiled list, change
\* nothing: no tracked list, and no layout pass is run.
C18_SwapNoOps ==
    trackerWm /\ Idle =>
        \A foc \in Windows \cup {NoWin}, monitor \in BOOLEAN :
            /\ Len(windows(Cur)) = 1 \/ Untracked(foc)
                   => swapWithPrimary(Cur, foc, monitor) = Cur
            /\ Untracked(foc)
                   => \A direction \in Directions, found \in Windows \cup {NoWin} :
                          swapInDirection(Cur, foc, direction, found, monitor) = Cur

\* one tiled window and an open window that is not tiled, with nothing in the
\* way of tileNow(): a swap that went on would run a pass
C18_Witness ==
    /\ trackerWm /\ Idle /\ settings.tilingEnabled /\ ~tileInProgress
    /\ Len(windows(Cur)) = 1
    /\ \E w \in Windows : win[w].st = "alive" /\ ~includes(windows(Cur), w)

\* C19: swap-with-primary on a list of length >= 2 with the focused window at
\* index i exchanges entries 0 and i (0 and 1 when i = 0), leaves the rest in
\* place, runs a layout pass before it returns and activates the new primary.
C19_SwapWithPrimary ==
    [][\A foc \in Windows :
          LET w == windows(Cur)
              i == indexOf(w, foc)
          IN  (SwapWithPrimary(foc, TRUE) /\ Len(w) >= 2 /\ includes(w, foc))
                  => /\ tiled'[activeWs] = IF i > 1 THEN swap(w, 1, i) ELSE swap(w, 1, 2)
                     /\ passCtx' = "now"
                     /\ activated' = tiled'[activeWs][1]]_vars

\* C20: a directional swap from the primary to the right targets index 1; every
\* directional swap that finds a target exchanges the two positions, retiles at
\* once and activates the window that was focused.
C20_SwapInDirection ==
    [][\A src \in Windows, direction \in Directions, found \in Windows \cup {NoWin} :
          LET w == windows(Cur)
              i == indexOf(w, src)
              tgt == IF i = 1 /\ direction = "right" /\ Len(w) > 1 THEN w[2] ELSE found
          IN  (SwapInDirection(src, direction, found, TRUE) /\ includes(w, src)
                 /\ tgt # NoWin)
                  => /\ tiled'[activeWs] = swap(w, i, indexOf(w, tgt))
                     /\ passCtx' = "now"
                     /\ activated' = src]_vars

\* ------------------------------------------------------------ drag release
\* the windows _findTargetUnderPointer can return for the grabbed window
dropTargets == {NoWin} \cup (Range(windows(Cur)) \ {grabbedWindow})

\* a drag is under way: grab-op-begin set the marker and grab-op-end is connected
dragging == Idle /\ grabbedWindow # NoWin /\ connected(Cur, "grab-op-end", NoWin)

C23_CoalescedIntoLaterPass ==
    trackerWm /\ settings.tilingEnabled /\ ~maximizedGate /\ grabbedWindow = NoWin =>
        /\ Idle /\ tilingTimers # {} => tilingPending(queueTile(Cur))
        /\ \A w \in placed :
               connected(Cur, "size-changed", w) => tilingPending(onSizeChanged(Cur))

\* ------------------------------------------------------- registry: firing
\* the state the host's call of the pending entry t leaves: the registry's
\* wrapper, then the callback registered with it
fired(t) ==
    CASE t.name = "tiling-queue" -> beginPass(expire(Cur, t), "timer", TRUE)
      [] t.name = "window-ready" -> check(expire(Cur, t), t)
      [] t.name = "center-window" -> centerCallback(expire(Cur, t), t)

\* the check of the fired readiness poll t registers the next poll
reschedules(t) ==
    /\ t.name = "window-ready"
    /\ isWindowValid(Cur, t.win) /\ ~isWindowReady(Cur, t.win)
    /\ t.attempts + 1 < MaxAttempts

\* C24: when a pending timer fires, its entry is out of the registry before the
\* callback runs: after the callback no entry has the fired id, count has
\* dropped the fired timer, and a callback that registers a timer under the
\* same tag (the readiness poll of the same window) leaves exactly one entry
\* with that tag, the new one.
C24_FiredEntryGone ==
    Idle =>
        \A t \in { u \in timeouts : u.src = "live" } :
            LET q == fired(t)
                sameTag == { u \in q.timeouts : u.name = t.name /\ u.win = t.win }
            IN  /\ \A u \in q.timeouts : u.id # t.id
                /\ count(expire(Cur, t)) = count(Cur) - 1
                /\ count(q) = Cardinality(q.timeouts \ timeouts) + count(Cur) - 1
                /\ reschedules(t) =>
                       /\ Cardinality(sameTag) = 1
                       /\ \A u \in sameTag : /\ u.id = nextId
                                             /\ u.attempts = t.attempts + 1
                                             /\ q.windowStates[t.win].readyTimerId = u.id

\* a readiness poll that has re-registered itself is pending for a window that
\* is still not ready: its next check re-registers again
C24_Witness ==
    /\ Idle
    /\ \E t \in timeouts : t.src = "live" /\ t.attempts >= 1 /\ reschedules(t)

\* ------------------------------------------------------- exception windows
\* C25: closing a window that is tracked in a workspace's exceptions list (and
\* in no tiled list) schedules no retile timer and runs no layout pass.
C25_ExceptionCloseNoRetile ==
    [][\A w \in Windows :
          (/\ win[w].st = "alive" /\ win'[w].st = "dead"
           /\ \E ws \in Workspaces : includes(exceptions[ws], w)
           /\ \A ws \in Workspaces : ~includes(tiled[ws], w))
              => /\ tilingTimers = {} => tilingTimers' = {}
                 /\ tileInProgress' = tileInProgress
                 /\ passCtx' = "idle"]_vars

\* ---------------------------------------------------------------- re-enable
PerWindowKinds == {"unmanaged", "size-changed", "notify::minimized", "workspace-changed"}

\* C26: after a disable followed by a new enable, every window in a tiled list
\* of the new Tiler has a handler of each per-window kind connected to the new
\* Tiler (the connections are a set: never two), and no handler of a former
\* Tiler is still connected to anything.
C26_ReenableRestores ==
    trackerWm /\ enables > 1 =>
        /\ \A ws \in Workspaces : \A w \in Range(tiled[ws]), kind \in PerWindowKinds :
               win[w].st = "alive" => connected(Cur, kind, w)
        /\ \A c \in hostConn : Len(c) = 2

\* ------------------------------------------------------------ readiness poll
\* the pending readiness-poll timers of window w
readyTimers(w) == { t \in timeouts : t.name = "window-ready" /\ t.win = w }

\* C27: every window has at most one readiness-poll timer pending in the
\* registry, and its readyTimerId, when set, is the id of that pending timer.
C27_OnePollPerWindow ==
    \A w \in Windows :
        /\ Cardinality(readyTimers(w)) <= 1
        /\ windowStates[w].readyTimerId # NoTimer
               => \E t \in readyTimers(w) : t.id = windowStates[w].readyTimerId

\* C28: the readiness poll terminates.  A pending poll has made fewer than
\* maxAttempts checks; a check that finds the window not ready never invokes
\* the classification callback (no list changes, no retile is queued); it
\* either registers the next poll with one more check counted, or, at the
\* maxAttempts-th check or for a destroyed window, stops with no poll timer
\* pending and readyTimerId cleared.  A destroyed window has no poll pending.
C28_PollTerminates ==
    trackerWm /\ Idle =>
        /\ \A t \in { u \in timeouts : u.name = "window-ready" /\ u.src = "live" } :
               LET w == t.win
                   q == fired(t)
                   left == { u \in q.timeouts : u.name = "window-ready" /\ u.win = w }
               IN  /\ t.attempts < MaxAttempts
                   /\ ~isWindowReady(Cur, w) =>
                          /\ q.tiled = tiled /\ q.exceptions = exceptions
                          /\ q.tileTimeoutId = tileTimeoutId
                          /\ IF isWindowValid(Cur, w) /\ t.attempts + 1 < MaxAttempts
                             THEN /\ Cardinality(left) = 1
                                  /\ \A u \in left : u.attempts = t.attempts + 1
                             ELSE /\ left = {}
                                  /\ q.windowStates[w].readyTimerId = NoTimer
        /\ \A w \in Windows :
               win[w].st = "dead" =>
                   readyTimers(w) = {} /\ windowStates[w].readyTimerId = NoTimer

\* the poll of a window that is still not ready has made maxAttempts - 1
\* checks: the next one is the last
C28_Witness ==
    /\ trackerWm /\ Idle
    /\ \E t \in timeouts : /\ t.name = "window-ready" /\ t.src = "live"
                           /\ t.attempts = MaxAttempts - 1
                           /\ isWindowValid(Cur, t.win) /\ ~isWindowReady(Cur, t.win)

\* --------------------------------------------------------- ordinary removal
\* what the window-removed handler of workspace win[w].ws leaves when the live
\* window w is moved to workspace to
removedFrom(w, to) == onWindowRemoved([Cur EXCEPT !.win[w].ws = to], win[w].ws, w)

\* C29: the removal of a live window from one workspace (the window is moved,
\* not destroyed) changes only that workspace's lists: the window's handlers,
\* its window state fields with a pending readiness timer, the cooldown record
\* and the lists of the other workspaces are as before.
C29_OrdinaryRemovalFrame ==
    trackerWm /\ Idle =>
        \A w \in { v \in Windows : win[v].st = "alive" /\ ~win[v].sticky } :
          \A to \in Workspaces \ {win[w].ws} :
            LET q == removedFrom(w, to)
            IN  /\ q.hostConn = hostConn /\ q.signalIds = signalIds
                /\ q.opStamps = opStamps
                /\ \A ws \in Workspaces \ {win[w].ws} :
                       q.tiled[ws] = tiled[ws] /\ q.exceptions[ws] = exceptions[ws]
                /\ q.windowStates = windowStates
                /\ readyTimers(w) \subseteq q.timeouts

\* --------------------------------------------------- workspace subscriptions
\* C30: while the tracker is enabled, after connectToWorkspace() is called for
\* a workspace object, that object has exactly one window-added and exactly
\* one window-removed handler of the tracker connected, whatever workspaces
\* were created and removed before.
C30_ExactlyOneSubscription ==
    trackerWm /\ Idle =>
        \A index \in 0..(Len(workspaceObjs) - 1) :
            connectToWorkspace(Cur, index).wsSubs[workspaceObjs[index + 1]]
                = [added |-> 1, removed |-> 1]

\* the windows the next layout pass of the active workspace is about to tile
\* that are maximized
maximizedToTile ==
    { w \in Range(windowsToTile(recheck(Cur, activeWs, tiled[activeWs]), activeWs)) :
         win[w].maximized }

\* C31: with respect-maximized-windows false, a layout pass (with a primary
\* monitor) calls unmaximize() on every maximized window it is about to tile
\* before it calls move_resize_frame() on any window, and it calls
\* move_resize_frame() on that window; the window is unmaximized and placed
\* when the pass body is done, and while a pass executes no placed window is
\* maximized.
C31_UnmaximizeBeforeGeometry ==
    (workspaceManager /\ ~settings.respectMax) =>
        LET ops == hostCalls(Cur, TRUE)
            after == tileWindows(Cur, TRUE)
        IN  /\ \A w \in maximizedToTile :
                  /\ \E i \in 1..Len(ops) :
                        /\ ops[i] = [op |-> "unmaximize", win |-> w]
                        /\ \A j \in 1..Len(ops) : ops[j].op = "move_resize_frame" => i < j
                  /\ \E j \in 1..Len(ops) : ops[j] = [op |-> "move_resize_frame", win |-> w]
                  /\ ~after.win[w].maximized
                  /\ w \in after.placed
            /\ (passCtx # "idle" => \A w \in placed : ~win[w].maximized)

\* a retile timer is pending with respect-maximized-windows false while a tiled
\* window of the active workspace is maximized and another one is tiled with it
C31_Witness ==
    /\ workspaceManager /\ ~settings.respectMax /\ passCtx = "idle"
    /\ tilingTimers # {}
    /\ maximizedToTile # {}
    /\ Len(windowsToTile(Cur, activeWs)) = 2


\* the pass body moved w from the active tiled list to the exceptions list,
\* scheduled its exception treatment where the settings ask for one, and
\* applied no geometry to it
movedToExceptions(after, w) ==
    /\ ~includes(after.tiled[activeWs], w)
    /\ includes(after.exceptions[activeWs], w)
    /\ w \notin after.placed
    /\ (settings.tilingEnabled /\ settings.exceptionsAlways =>
            \E t \in after.timeouts \ timeouts : t.name = "center-window" /\ t.win = w)

\* C32 as stated: a layout pass moves every live window of the active
\* workspace's tiled list that fails the tileable test or matches the
\* exception set from tiled to exceptions, schedules its exception treatment,
\* and applies no geometry to it.
C32_RecheckMovesAll ==
    workspaceManager /\ Idle =>
        \A w \in Range(tiled[activeWs]) :
            isWindowValid(Cur, w) /\ ~isTileable(Cur, w) =>
                movedToExceptions(tileWindows(Cur, TRUE), w)

\* C32: a layout pass moves every live window of the active workspace's tiled
\* list that matches the exception set from tiled to exceptions, schedules its
\* exception treatment when tiling is enabled and a treatment key is set, and
\* applies no geometry to it; a live window of the list that does not match
\* the exception set stays in the tiled list, tileable or not.
C32_RecheckMovesExceptions ==
    workspaceManager /\ Idle =>
        \A w \in Range(tiled[activeWs]) :
            isWindowValid(Cur, w) =>
                IF isException(Cur, w)
                THEN movedToExceptions(tileWindows(Cur, TRUE), w)
                ELSE /\ includes(tileWindows(Cur, TRUE).tiled[activeWs], w)
                     /\ ~includes(tileWindows(Cur, TRUE).exceptions[activeWs], w)

\* a pass has just moved a window that had come to match the exception set to
\* the exceptions list and scheduled its centring, and has left a minimized
\* window in the tiled list
C32_Witness ==
    /\ passCtx = "timer"
    /\ \E w \in Range(exceptions[activeWs]) :
          /\ windowStates[w].workspaceSignalId
          /\ \E t \in timeouts : t.name = "center-window" /\ t.win = w
    /\ \E w \in Range(tiled[activeWs]) : win[w].minimized

\* the windows of the active tiled list the filter of _tileWindows is there to
\* skip: destroyed ones and minimized ones (that are no exceptions)
skipped ==
    { w \in Range(tiled[activeWs]) :
         \/ win[w].st = "dead"
         \/ win[w].st = "alive" /\ win[w].minimized /\ ~isException(Cur, w) }

atWorkspaceChanged(w, to) ==
    IF to = win[w].ws THEN Cur
    ELSE LET r0 == [Cur EXCEPT !.win[w].ws = to]
             r1 == emit(r0, "window-removed", win[w].ws, onWindowRemoved(r0, win[w].ws, w))
         IN  emit(r1, "window-added", to, onWindowAdded(r1, to, w))

\* the lists and the recorded index of the migration claim hold between pre and q
migrated(pre, q, w) ==
    LET new == getWorkspace(pre, w)
        prev == pre.windowStates[w].prevWorkspaceIndex
    IN  /\ prev \in Workspaces =>
               ~includes(q.tiled[prev], w) /\ ~includes(q.exceptions[prev], w)
        /\ (isException(pre, w) \/ isTileable(pre, w)) =>
               includes(q.tiled[new], w) # includes(q.exceptions[new], w)
        /\ q.windowStates[w].prevWorkspaceIndex = new
        /\ (q.settings.tilingEnabled /\ ~(q.settings.respectMax /\ hasMaximizedWindows(q)))
               => tilingPending(q)

\* C34: when the workspace-changed handler runs for a live window that is in
\* a list and that it is connected to: if the window's workspace index differs
\* from the recorded one and the cooldown is over, the window is then in no
\* list of the recorded
\* workspace, in exactly one list of the new one if it is an exception or
\* tileable, the recorded index is the new index and a retile timer is pending
\* (tiling being enabled and the maximized gate open); otherwise no list and
\* no recorded index changes.
C34_Migration ==
    workspaceManager /\ Idle =>
        \A w \in { v \in Windows : win[v].st = "alive" /\ ~win[v].sticky
                                     /\ listsOf(v) # {}
                                     /\ connected(Cur, "workspace-changed", v) } :
          \A to \in Workspaces, recent \in BOOLEAN :
            LET pre == atWorkspaceChanged(w, to)
                q == onWindowWorkspaceChanged(pre, w, recent)
            IN  IF /\ getWorkspace(pre, w) # pre.windowStates[w].prevWorkspaceIndex
                   /\ ~shouldSkipOperation(pre, w, recent)
                THEN migrated(pre, q, w)
                ELSE /\ q.tiled = pre.tiled /\ q.exceptions = pre.exceptions
                     /\ q.windowStates[w].prevWorkspaceIndex
                            = pre.windowStates[w].prevWorkspaceIndex


\* ------------------------------------------------- per-window subscriptions
\* the handlers of the Tiler connected on window w
held(w) == { c \in hostConn : Len(c) = 2 /\ c[2] = w /\ c[1] \in PerWindowKinds }

\* C35: while the Tiler is enabled, for every live window: the Tiler's handlers
\* connected on it are all four of unmanaged, size-changed, minimized and
\* workspace-changed or none of them; its bookkeeping (_signalIds, the stored
\* workspaceSignalId) names exactly the connected ones; and an add event for
\* the window on any workspace connects only signals that have no handler
\* connected yet, so that none is ever connected twice.
C35_SubscribedOnce ==
    trackerWm /\ Idle =>
        \A w \in { v \in Windows : win[v].st = "alive" } :
            /\ held(w) \in { {}, windowSignals(w) \cup { <<"workspace-changed", w>> } }
            /\ windowSignals(w) \cap signalIds = windowSignals(w) \cap hostConn
            /\ windowStates[w].workspaceSignalId <=> connected(Cur, "workspace-changed", w)
            /\ \A ws \in Workspaces :
                  /\ connectsOf(Cur, ws, w) \cap hostConn = {}
                  /\ processNewWindow(Cur, ws, w).hostConn
                         = hostConn \cup connectsOf(Cur, ws, w)

\* a window holding its four handlers has migrated to workspace 1 (it was added
\* again there and the workspace-changed handler recorded the move), while
\* another window is tracked as an exception without any handler
C35_Witness ==
    /\ trackerWm /\ Idle
    /\ \E w \in Windows :
          /\ win[w].st = "alive" /\ win[w].ws = 1 /\ w \in opStamps
          /\ includes(tiled[1], w)
          /\ Cardinality(held(w)) = 4
    /\ \E w \in Windows :
          /\ win[w].st = "alive" /\ listsOf(w) # {} /\ held(w) = {}

\* ---------------------------------------------------------- target selection
\* the positions other than s whose frame origin lies strictly on side dir of
\* the origin of the window at s
candidates(s, dir) ==
    { i \in 1..Len(frames) \ {s} :
         CASE dir = "left" -> frames[i].x < frames[s].x
           [] dir = "right" -> frames[i].x > frames[s].x
           [] dir = "up" -> frames[i].y < frames[s].y
           [] dir = "down" -> frames[i].y > frames[s].y }

\* the perpendicular-axis deviation of the window at i from the one at s
deviation(i, s, dir) ==
    IF dir \in {"left", "right"} THEN abs(frames[i].y - frames[s].y)
    ELSE abs(frames[i].x - frames[s].x)

\* C36: for every source window of the list and every direction, the target
\* is null exactly when no other window's origin lies strictly on that side;
\* otherwise it is such a window of minimal perpendicular deviation, and the
\* first of those in list order.
C36_DirectionalTarget ==
    \A s \in 1..Len(frames), dir \in Directions :
        LET t == findTargetInDirection(frames, s, dir)
        IN  /\ t = 0 <=> candidates(s, dir) = {}
            /\ t # 0 =>
                  /\ t \in candidates(s, dir)
                  /\ \A c \in candidates(s, dir) :
                        /\ deviation(t, s, dir) <= deviation(c, s, dir)
                        /\ deviation(c, s, dir) = deviation(t, s, dir) => t <= c

\* a focus shortcut has activated its target where two candidates tie on the
\* minimal deviation and an earlier candidate of the list deviates more
C36_Witness ==
    \E s \in 1..Len(frames), dir \in Directions :
        LET t == findTargetInDirection(frames, s, dir)
        IN  /\ t # 0 /\ activated = t
            /\ \E c \in candidates(s, dir) :
                  c > t /\ deviation(c, s, dir) = deviation(t, s, dir)
            /\ \E c \in candidates(s, dir) :
                  c < t /\ deviation(c, s, dir) > deviation(t, s, dir)

\* ------------------------------------------------------------- destruction
\* the Tiler has a per-window subscription of w in its bookkeeping
subscribed(w) ==
    windowSignals(w) \cap signalIds # {} \/ windowStates[w].workspaceSignalId

\* C37: a step in which a window whose unmanaged handler is connected is
\* destroyed leaves no readiness timer of the window pending, none of its
\* four handlers connected or in the bookkeeping, its Window State fields and
\* its cooldown record cleared, and a retile timer pending (tiling being
\* enabled and the maximized gate open); and a step that takes a window's
\* subscription out of the bookkeeping destroys the window or is disable().
C37_DestructionPath ==
    [][\A w \in Windows :
          /\ (win[w].st = "alive" /\ win'[w].st = "dead"
                 /\ connected(Cur, "unmanaged", w)) =>
                /\ \A t \in timeouts' : ~(t.name = "window-ready" /\ t.win = w)
                /\ windowStates'[w].readyTimerId = NoTimer
                /\ \A c \in hostConn' : ~(c[1] \in PerWindowKinds /\ c[2] = w)
                /\ windowSignals(w) \cap signalIds' = {}
                /\ ~windowStates'[w].workspaceSignalId
                /\ windowStates'[w].prevWorkspaceIndex = NoIndex
                /\ w \notin opStamps'
                /\ (settings'.tilingEnabled
                      /\ ~(settings'.respectMax
                             /\ \E v \in Range(tiled'[activeWs']) :
                                   win'[v].maximized /\ ~win'[v].minimized))
                       => \E t \in timeouts' : t.name = "tiling-queue"
          /\ (subscribed(w) /\ ~subscribed(w)') => (win'[w].st = "dead" \/ ~trackerWm')
      ]_vars

\* a window that had migrated (its cooldown record existed) has been destroyed
\* while the other window keeps its handlers: the destroyed one's record and
\* fields are cleared, its Window State entry is left, a retile is pending
C37_Witness ==
    /\ trackerWm
    /\ \E w \in Windows :
          /\ win[w].st = "dead" /\ windowStates[w].entry
          /\ ~subscribed(w) /\ w \notin opStamps
          /\ opStamps # {}
          /\ \E v \in Windows \ {w} : win[v].st = "alive" /\ Cardinality(held(v)) = 4
    /\ tilingTimers # {}

\* ------------------------------------------------------------ tracker lists
\* both lists of every workspace are the same in r and q
sameLists(r, q) == r.tiled = q.tiled /\ r.exceptions = q.exceptions

\* w is in neither list of workspace ws
untracked(ws, w) == ~includes(tiled[ws], w) /\ ~includes(exceptions[ws], w)

\* C38: for every workspace, window and list kind, addWindow() applied twice
\* leaves the lists addWindow() applied once leaves; removeWindow() of a
\* window that is in neither list of the workspace changes no list; and
\* addWindow() of such a window followed by removeWindow() leaves every list
\* as it was, order included.
C38_ListOperations ==
    \A ws \in Workspaces, w \in TrackedWindows, isExc \in BOOLEAN :
        LET once == addWindow(Cur, ws, w, isExc)
        IN  /\ sameLists(addWindow(once, ws, w, isExc), once)
            /\ untracked(ws, w) =>
                  /\ sameLists(removeWindow(Cur, ws, w), Cur)
                  /\ ~sameLists(once, Cur)
                  /\ sameLists(removeWindow(once, ws, w), Cur)

\* workspace 1's lists have been built by the operations (3 then 1 tiled, 1 an
\* exception as well), window 2 is in neither, and workspace 0 tracks windows
C38_Witness ==
    /\ tiled[1] = << 3, 1 >> /\ exceptions[1] = << 1 >>
    /\ untracked(1, 2)
    /\ tiled[0] # << >>

\* ------------------------------------------------------------- reordering
\* handler result q left the lists as they were but for a permutation of the
\* active workspace's tiled list
onlyPermuted(q) ==
    /\ Len(q.tiled[activeWs]) = Len(tiled[activeWs])
    /\ Range(q.tiled[activeWs]) = Range(tiled[activeWs])
    /\ Cardinality(Range(q.tiled[activeWs])) = Len(q.tiled[activeWs])
    /\ q.exceptions = exceptions
    /\ \A ws \in Workspaces \ {activeWs} : q.tiled[ws] = tiled[ws]

\* a is b reordered: same length, same windows, none twice
permutes(a, b) ==
    Len(a) = Len(b) /\ Range(a) = Range(b) /\ Cardinality(Range(a)) = Len(a)

\* the windows of the active tiled list a layout pass leaves in it
kept(w) == win[w].st = "alive" /\ ~isException(Cur, w)

\* handler result q left the lists as a reordering followed by the recheck of
\* a layout pass leaves them: the kept windows permuted, the live exceptions of
\* the tiled list moved to the exceptions list, the other workspaces as before
permutedAndRechecked(q) ==
    /\ permutes(q.tiled[activeWs], SelectSeq(tiled[activeWs], kept))
    /\ Range(q.exceptions[activeWs])
          = Range(exceptions[activeWs])
               \cup { w \in Range(tiled[activeWs]) : win[w].st = "alive" /\ ~kept(w) }
    /\ \A ws \in Workspaces \ {activeWs} :
          q.tiled[ws] = tiled[ws] /\ q.exceptions[ws] = exceptions[ws]

\* C39 as stated: while the extension is enabled, the swap-with-primary
\* shortcut, the directional swap shortcuts and the release of a drag, for any
\* focused window and any target, leave the active workspace's tiled list a
\* permutation of what it was (same length, same windows, none twice) and
\* every other list as it was.
C39_OnlyPermute ==
    trackerWm /\ Idle =>
        /\ \A foc \in {NoWin} \cup { w \in Windows : win[w].st = "alive" } :
              onlyPermuted(swapWithPrimary(Cur, foc, TRUE))
        /\ \A src \in {NoWin} \cup { w \in Windows : win[w].st = "alive" },
              direction \in Directions :
              \A found \in {NoWin} \cup (Range(windows(Cur)) \ {src}) :
                  onlyPermuted(swapInDirection(Cur, src, direction, found, TRUE))
        /\ \A tgt \in {NoWin} \cup (Range(windows(Cur)) \ {grabbedWindow}) :
              onlyPermuted(onGrabEnd(Cur, tgt))

\* C39: while the extension is enabled, the release of a drag only permutes
\* the active workspace's tiled list; the swap-with-primary and directional
\* swap shortcuts only permute it when every window of the list is live and
\* no exception, and otherwise leave what the recheck of the layout pass they
\* run leaves of a permutation; no window occurs twice, and the lists of every
\* other workspace are untouched.
C39_PermuteThenRecheck ==
    trackerWm /\ Idle =>
        /\ \A foc \in {NoWin} \cup { w \in Windows : win[w].st = "alive" } :
              LET q == swapWithPrimary(Cur, foc, TRUE)
              IN  /\ onlyPermuted(q) \/ permutedAndRechecked(q)
                  /\ (\A w \in Range(tiled[activeWs]) : kept(w)) => onlyPermuted(q)
        /\ \A src \in {NoWin} \cup { w \in Windows : win[w].st = "alive" },
              direction \in Directions :
              \A found \in {NoWin} \cup (Range(windows(Cur)) \ {src}) :
                  LET q == swapInDirection(Cur, src, direction, found, TRUE)
                  IN  /\ onlyPermuted(q) \/ permutedAndRechecked(q)
                      /\ (\A w \in Range(tiled[activeWs]) : kept(w)) => onlyPermuted(q)
        /\ \A tgt \in {NoWin} \cup (Range(windows(Cur)) \ {grabbedWindow}) :
              onlyPermuted(onGrabEnd(Cur, tgt))

\* the pass of a swap is executing on the exchanged list: the second window
\* opened is first and one of the two has been activated
C39_Witness ==
    /\ passCtx = "now" /\ activated # NoWin
    /\ tiled[activeWs] = << 2, 1 >>

\* --------------------------------------------------------- scheduler flags
\* C40: whenever no timer callback is running, _tileInProgress is true iff
\* _tileTimeoutId is non-null iff exactly one tiling-queue timer is pending in
\* the registry, before and after disable().
C40_FlagConsistency ==
    passCtx # "timer" =>
        /\ tileInProgress <=> tileTimeoutId # NoTimer
        /\ tileTimeoutId # NoTimer <=> Cardinality(tilingTimers) = 1

====
